---- MODULE Spec2Model ----
(***************************************************************************)
(* Document analysis pipeline of the personal health manager:              *)
(*   DocumentProcessingService (validation, extraction, classification,    *)
(*   confidence scoring), HealthLLMService (category analysis, summary)    *)
(*   and DocumentService (orchestration and persistence).                  *)
(*                                                                         *)
(* Text is a sequence of one-character strings, so that lower-casing,      *)
(* substring search and stripping are computed and not assumed.            *)
(* A confidence score is a Python float: an IEEE 754 double, held as its    *)
(* 53-bit significand and exponent, with + and * rounded to nearest even.  *)
(* An OCR confidence is given in hundredths (90 is the double 0.9).        *)
(***************************************************************************)
EXTENDS Integers, Sequences, FiniteSets, TLC

\* ------------------------------------------------------------------ bounds
\* the number of analyze_document_complete invocations in flight
NumRequests == 2

Requests == 1..NumRequests
Users == {1, 2}

None == "None"

\* -------------------------------------------------------------- characters
ToLower ==
    ("A" :> "a") @@ ("B" :> "b") @@ ("C" :> "c") @@ ("D" :> "d") @@ ("E" :> "e") @@
    ("F" :> "f") @@ ("G" :> "g") @@ ("H" :> "h") @@ ("I" :> "i") @@ ("J" :> "j") @@
    ("K" :> "k") @@ ("L" :> "l") @@ ("M" :> "m") @@ ("N" :> "n") @@ ("O" :> "o") @@
    ("P" :> "p") @@ ("Q" :> "q") @@ ("R" :> "r") @@ ("S" :> "s") @@ ("T" :> "t") @@
    ("U" :> "u") @@ ("V" :> "v") @@ ("W" :> "w") @@ ("X" :> "x") @@ ("Y" :> "y") @@
    ("Z" :> "z")

LowerChar(c) == IF c \in DOMAIN ToLower THEN ToLower[c] ELSE c

\* str.lower()
Lower(s) == [i \in 1..Len(s) |-> LowerChar(s[i])]

Whitespace == {" ", "\n", "\t", "\r"}

\* kw in s (substring containment)
Contains(s, kw) ==
    \E i \in 0..(Len(s) - Len(kw)) : SubSeq(s, i + 1, i + Len(kw)) = kw

\* s.endswith(suffix)
EndsWith(s, suffix) ==
    /\ Len(s) >= Len(suffix)
    /\ SubSeq(s, Len(s) - Len(suffix) + 1, Len(s)) = suffix

\* s.strip()
Strip(s) ==
    LET keep == {i \in 1..Len(s) : s[i] \notin Whitespace}
    IN  IF keep = {} THEN <<>>
        ELSE LET lo == CHOOSE i \in keep : \A j \in keep : i <= j
                 hi == CHOOSE i \in keep : \A j \in keep : j <= i
             IN  SubSeq(s, lo, hi)

\* ----------------------------------------- DocumentProcessingService tables
supported_formats ==
    [ pdf     |-> << <<".", "p", "d", "f">> >>,
      word    |-> << <<".", "d", "o", "c", "x">>, <<".", "d", "o", "c">> >>,
      text    |-> << <<".", "t", "x", "t">>, <<".", "r", "t", "f">> >>,
      image   |-> << <<".", "j", "p", "g">>, <<".", "j", "p", "e", "g">>,
                     <<".", "p", "n", "g">>, <<".", "b", "m", "p">>,
                     <<".", "t", "i", "f", "f">>, <<".", "t", "i", "f">> >>,
      medical |-> << <<".", "d", "c", "m">>, <<".", "d", "i", "c", "o", "m">> >> ]

\* the table in declaration order: <<category, triggers>>
medical_patterns ==
    << <<"ecg", <<
        <<"e", "l", "e", "c", "t", "r", "o", "c", "a", "r", "d", "i", "o", "g", "r", "a", "m">>,
        <<"e", "c", "g">>,
        <<"e", "k", "g">>,
        <<"h", "e", "a", "r", "t", " ", "r", "h", "y", "t", "h", "m">>,
        <<"c", "a", "r", "d", "i", "a", "c">> >> >>,
       <<"blood_test", <<
        <<"b", "l", "o", "o", "d">>,
        <<"h", "e", "m", "o", "g", "l", "o", "b", "i", "n">>,
        <<"g", "l", "u", "c", "o", "s", "e">>,
        <<"c", "h", "o", "l", "e", "s", "t", "e", "r", "o", "l">>,
        <<"C", "B", "C">> >> >>,
       <<"prescription", <<
        <<"r", "x">>,
        <<"p", "r", "e", "s", "c", "r", "i", "p", "t", "i", "o", "n">>,
        <<"m", "e", "d", "i", "c", "a", "t", "i", "o", "n">>,
        <<"d", "o", "s", "a", "g", "e">>,
        <<"m", "g">> >> >>,
       <<"radiology", <<
        <<"x", "-", "r", "a", "y">>,
        <<"c", "t", " ", "s", "c", "a", "n">>,
        <<"m", "r", "i">>,
        <<"u", "l", "t", "r", "a", "s", "o", "u", "n", "d">>,
        <<"r", "a", "d", "i", "o", "l", "o", "g", "y">> >> >>,
       <<"lab_report", <<
        <<"l", "a", "b", "o", "r", "a", "t", "o", "r", "y">>,
        <<"l", "a", "b", " ", "r", "e", "s", "u", "l", "t", "s">>,
        <<"r", "e", "f", "e", "r", "e", "n", "c", "e", " ", "r", "a", "n", "g", "e">>,
        <<"n", "o", "r", "m", "a", "l">> >> >> >>

generic_medical_words ==
    { <<"p", "a", "t", "i", "e", "n", "t">>, <<"m", "e", "d", "i", "c", "a", "l">>,
      <<"d", "o", "c", "t", "o", "r">>, <<"h", "o", "s", "p", "i", "t", "a", "l">> }

generic_report_words ==
    { <<"r", "e", "p", "o", "r", "t">>, <<"a", "n", "a", "l", "y", "s", "i", "s">>,
      <<"f", "i", "n", "d", "i", "n", "g", "s">> }

\* the size limit of validate_file, in bytes
max_size == 50 * 1024 * 1024

\* --------------------------------------------------------- classification
\* sum(1 for keyword in keywords if keyword in text_lower)
TypeScore(keywords, text_lower) ==
    Cardinality({k \in 1..Len(keywords) : Contains(text_lower, keywords[k])})

\* classify_document_type with a tie going to the category declared last
classify_document_type_last_tie(text) ==
    LET text_lower == Lower(text)
        score(i) == TypeScore(medical_patterns[i][2], text_lower)
        scored == {i \in 1..Len(medical_patterns) : score(i) > 0}
    IN  IF scored # {}
        THEN LET best == CHOOSE i \in scored :
                            /\ \A j \in scored : score(j) <= score(i)
                            /\ \A j \in scored : score(j) = score(i) => j <= i
             IN  medical_patterns[best][1]
        ELSE IF \E w \in generic_medical_words : Contains(text_lower, w)
             THEN "medical_document"
        ELSE IF \E w \in generic_report_words : Contains(text_lower, w)
             THEN "report"
        ELSE "general_document"

\* classify_document_type with the report words tested before the medical ones
classify_document_type_report_first(text) ==
    LET text_lower == Lower(text)
        score(i) == TypeScore(medical_patterns[i][2], text_lower)
        scored == {i \in 1..Len(medical_patterns) : score(i) > 0}
    IN  IF scored # {}
        THEN LET best == CHOOSE i \in scored :
                            /\ \A j \in scored : score(j) <= score(i)
                            /\ \A j \in scored : score(j) = score(i) => i <= j
             IN  medical_patterns[best][1]
        ELSE IF \E w \in generic_report_words : Contains(text_lower, w)
             THEN "report"
        ELSE IF \E w \in generic_medical_words : Contains(text_lower, w)
             THEN "medical_document"
        ELSE "general_document"

\* max(type_scores, key=type_scores.get): the first inserted key with the
\* greatest value; keys are inserted in table order, only when score > 0
classify_document_type(text) ==
    LET text_lower == Lower(text)
        score(i) == TypeScore(medical_patterns[i][2], text_lower)
        scored == {i \in 1..Len(medical_patterns) : score(i) > 0}
    IN  IF scored # {}
        THEN LET best == CHOOSE i \in scored :
                            /\ \A j \in scored : score(j) <= score(i)
                            /\ \A j \in scored : score(j) = score(i) => i <= j
             IN  medical_patterns[best][1]
        ELSE IF \E w \in generic_medical_words : Contains(text_lower, w)
             THEN "medical_document"
        ELSE IF \E w \in generic_report_words : Contains(text_lower, w)
             THEN "report"
        ELSE "general_document"

\* ------------------------------------------------- Python floats (doubles)
(* A natural number of any size is a sequence of limbs, least significant  *)
(* first, without leading zero limbs; <<>> is zero.                        *)
LimbBits == 15
Base == 32768
MantissaBits == 53

RECURSIVE Pow2(_)
Pow2(k) == IF k = 0 THEN 1 ELSE 2 * Pow2(k - 1)

RECURSIVE Trim(_)
Trim(a) ==
    IF a = <<>> THEN <<>>
    ELSE IF a[Len(a)] = 0 THEN Trim(SubSeq(a, 1, Len(a) - 1)) ELSE a

Rest(a) == IF a = <<>> THEN <<>> ELSE Tail(a)
Low(a) == IF a = <<>> THEN 0 ELSE a[1]

RECURSIVE BigAddC(_, _, _)
\* a + b + carry
BigAddC(a, b, carry) ==
    IF a = <<>> /\ b = <<>>
    THEN IF carry = 0 THEN <<>> ELSE <<carry>>
    ELSE <<(Low(a) + Low(b) + carry) % Base>>
         \o BigAddC(Rest(a), Rest(b), (Low(a) + Low(b) + carry) \div Base)

BigAdd(a, b) == BigAddC(a, b, 0)

RECURSIVE BigMulSmallC(_, _, _)
\* a * k + carry, for 0 < k < Base
BigMulSmallC(a, k, carry) ==
    IF a = <<>>
    THEN IF carry = 0 THEN <<>> ELSE <<carry>>
    ELSE <<(a[1] * k + carry) % Base>>
         \o BigMulSmallC(Tail(a), k, (a[1] * k + carry) \div Base)

BigMulSmall(a, k) == IF k = 0 THEN <<>> ELSE BigMulSmallC(a, k, 0)

\* a * Base
ShiftLimb(a) == IF a = <<>> THEN <<>> ELSE <<0>> \o a

RECURSIVE BigShl(_, _)
\* a * 2^d
BigShl(a, d) ==
    IF d >= LimbBits THEN ShiftLimb(BigShl(a, d - LimbBits))
    ELSE BigMulSmall(a, Pow2(d))

RECURSIVE BigMul(_, _)
\* a * b
BigMul(a, b) ==
    IF b = <<>> THEN <<>>
    ELSE BigAdd(BigMulSmall(a, b[1]), ShiftLimb(BigMul(a, Tail(b))))

RECURSIVE LimbLen(_)
LimbLen(x) == IF x = 0 THEN 0 ELSE 1 + LimbLen(x \div 2)

\* the number of bits of a
BitLen(a) == IF a = <<>> THEN 0 ELSE LimbBits * (Len(a) - 1) + LimbLen(a[Len(a)])

\* bit i of a, bit 0 the least significant
BigBit(a, i) ==
    IF i \div LimbBits + 1 > Len(a) THEN 0
    ELSE (a[i \div LimbBits + 1] \div Pow2(i % LimbBits)) % 2

\* b shifted right by s < LimbBits bits
ShrBits(b, s) ==
    Trim([i \in 1..Len(b) |->
            (b[i] \div Pow2(s))
            + (IF i < Len(b) THEN (b[i + 1] % Pow2(s)) * Pow2(LimbBits - s) ELSE 0)])

\* a \div 2^d
BigShr(a, d) == ShrBits(SubSeq(a, d \div LimbBits + 1, Len(a)), d % LimbBits)

\* a % 2^d # 0
AnyBelow(a, d) == \E i \in 0..(d - 1) : BigBit(a, i) = 1

\* one step of the long division: limb under the remainder of the limbs above
DivLimb(limb, den, high) ==
    [q |-> <<(high.r * Base + limb) \div den>> \o high.q,
     r |-> (high.r * Base + limb) % den]

RECURSIVE BigDivSmall(_, _)
\* quotient (untrimmed) and remainder of a by 0 < den < Base
BigDivSmall(a, den) ==
    IF a = <<>> THEN [q |-> <<>>, r |-> 0]
    ELSE DivLimb(a[1], den, BigDivSmall(Tail(a), den))

\* a < b, for a and b of the same number of limbs
BigLess(a, b) ==
    \E i \in 1..Len(a) :
        /\ a[i] < b[i]
        /\ \A j \in (i + 1)..Len(a) : a[j] = b[j]

(* A double x >= 0 is [m, e] with value m * 2^e: m is zero (and e is 0) or *)
(* has exactly 53 bits.  Subnormals and infinities are out of range here.  *)
FZero == [m |-> <<>>, e |-> 0]

\* q * 2^e, q of 53 or 54 bits after the increment of a rounding
Renormalised(q, e) ==
    IF BitLen(q) > MantissaBits THEN [m |-> BigShr(q, 1), e |-> e + 1]
    ELSE [m |-> q, e |-> e]

\* q rounded up when the bits cut off are more than half, or half and q odd
RoundedUp(q, guard, rest) ==
    IF guard = 1 /\ (rest \/ BigBit(q, 0) = 1) THEN BigAdd(q, <<1>>) ELSE q

\* m * 2^e, m of more than 53 bits, as the nearest double (ties to even)
CutTo(m, e, d, sticky) ==
    Renormalised(RoundedUp(BigShr(m, d), BigBit(m, d - 1),
                           sticky \/ AnyBelow(m, d - 1)),
                 e + d)

\* the double nearest to m * 2^e (+ something below one unit of m, if sticky)
RoundToDouble(m, e, sticky) ==
    IF m = <<>> THEN FZero
    ELSE IF BitLen(m) <= MantissaBits
    THEN [m |-> BigShl(m, MantissaBits - BitLen(m)), e |-> e - (MantissaBits - BitLen(m))]
    ELSE CutTo(m, e, BitLen(m) - MantissaBits, sticky)

Min(a, b) == IF a <= b THEN a ELSE b

\* x + y
FAdd(x, y) ==
    IF x.m = <<>> THEN y
    ELSE IF y.m = <<>> THEN x
    ELSE RoundToDouble(BigAdd(BigShl(x.m, x.e - Min(x.e, y.e)),
                              BigShl(y.m, y.e - Min(x.e, y.e))),
                       Min(x.e, y.e), FALSE)

\* x * y
FMul(x, y) ==
    IF x.m = <<>> \/ y.m = <<>> THEN FZero
    ELSE RoundToDouble(BigMul(x.m, y.m), x.e + y.e, FALSE)

\* x < y
FLess(x, y) ==
    IF y.m = <<>> THEN FALSE
    ELSE IF x.m = <<>> THEN TRUE
    ELSE IF x.e # y.e THEN x.e < y.e
    ELSE BigLess(x.m, y.m)

\* min(x, y) of Python: y only when y < x
FMin(x, y) == IF FLess(y, x) THEN y ELSE x

\* the extra binary digits a quotient is computed with before it is rounded
QuotientBits == 75

FromQuotient(d) == RoundToDouble(Trim(d.q), 0 - QuotientBits, d.r # 0)

\* the double nearest to num / den (a decimal literal such as 0.2 is 2 / 10),
\* for num < Base and 0 < den < Base
FromRatio(num, den) ==
    IF num = 0 THEN FZero
    ELSE FromQuotient(BigDivSmall(BigShl(<<num>>, QuotientBits), den))

\* ------------------------------------------------------ confidence score
\* the float literals of calculate_confidence_score
text_bonus == FromRatio(5, 10)
long_text_bonus == FromRatio(2, 10)
medium_text_bonus == FromRatio(1, 10)
typed_bonus == FromRatio(2, 10)
ocr_weight == FromRatio(1, 10)
score_cap == FromRatio(1, 1)

AddIf(score, condition, amount) == IF condition THEN FAdd(score, amount) ELSE score

\* lines 373-377
LengthBonus(score, text_length) ==
    IF text_length > 100 THEN FAdd(score, long_text_bonus)
    ELSE IF text_length > 50 THEN FAdd(score, medium_text_bonus)
    ELSE score

\* lines 384-385; the confidence of the metadata is in hundredths
OcrBonus(score, metadata) ==
    IF "confidence" \in DOMAIN metadata
    THEN FAdd(score, FMul(FromRatio(metadata.confidence, 100), ocr_weight))
    ELSE score

\* calculate_confidence_score with the bonus of a long text given to no text
calculate_confidence_score_flat_length(result) ==
    FMin(OcrBonus(AddIf(AddIf(AddIf(FZero, result.text_content # <<>>, text_bonus),
                              Len(result.text_content) > 50, medium_text_bonus),
                        result.document_type # "unknown", typed_bonus),
                  IF "metadata" \in DOMAIN result THEN result.metadata
                  ELSE [x \in {} |-> None]),
         score_cap)

\* calculate_confidence_score(result)
calculate_confidence_score(result) ==
    FMin(OcrBonus(AddIf(LengthBonus(AddIf(FZero, result.text_content # <<>>,
                                          text_bonus),
                                    Len(result.text_content)),
                        result.document_type # "unknown", typed_bonus),
                  IF "metadata" \in DOMAIN result THEN result.metadata
                  ELSE [x \in {} |-> None]),
         score_cap)

\* ------------------------------------------------------------- validation
\* get_supported_formats(): every extension of every family
get_supported_formats ==
    UNION {{supported_formats[fam][i] : i \in 1..Len(supported_formats[fam])} :
           fam \in DOMAIN supported_formats}

InFamily(ext, fam) ==
    \E i \in 1..Len(supported_formats[fam]) : supported_formats[fam][i] = ext

\* validate_file with the size test written >= in place of >
validate_file_at_limit(file) ==
    IF ~file.exists
    THEN [is_valid |-> FALSE, message |-> <<"File does not exist">>]
    ELSE IF Lower(file.suffix) \notin get_supported_formats
    THEN [is_valid |-> FALSE,
          message |-> <<"Unsupported file format", Lower(file.suffix)>>]
    ELSE IF file.size >= max_size
    THEN [is_valid |-> FALSE, message |-> <<"File too large", file.size>>]
    ELSE [is_valid |-> TRUE, message |-> <<"File is valid">>]

\* validate_file(file_path) -> (is_valid, message); the message is a pair
\* <<text, argument>> for the formatted ones
validate_file(file) ==
    IF ~file.exists
    THEN [is_valid |-> FALSE, message |-> <<"File does not exist">>]
    ELSE LET file_extension == Lower(file.suffix)
         IN  IF file_extension \notin get_supported_formats
             THEN [is_valid |-> FALSE,
                   message |-> <<"Unsupported file format", file_extension>>]
             ELSE IF file.size > max_size
             THEN [is_valid |-> FALSE,
                   message |-> <<"File too large", file.size>>]
             ELSE [is_valid |-> TRUE, message |-> <<"File is valid">>]

\* ---------------------------------------------------------------- inputs
(* A file as the extraction libraries see it.  content is the text the     *)
(* format's extractor yields (the bytes read, for a text file); units is   *)
(* the page, paragraph or message count it reports; corrupt makes the      *)
(* extractor raise.  For an image: regions are the easyocr regions         *)
(* <<text, confidence in hundredths>>, tess_text the tesseract output,     *)
(* chart the outcome of the chart detector.                                *)
MakeFile(name, suffix, size, content) ==
    [ name |-> name, exists |-> TRUE, suffix |-> suffix, size |-> size,
      content |-> content, units |-> 1, corrupt |-> FALSE,
      regions |-> <<>>, easyocr_fails |-> FALSE,
      tess_text |-> <<>>, tess_fails |-> FALSE, chart |-> "no" ]

ChartOutcomes == {"yes", "no", "raises"}

\* the module flags set by the imports and by setup_ocr
Envs ==
    { e \in [PDF_AVAILABLE : BOOLEAN, ADVANCED_PROCESSING : BOOLEAN,
             ocr_reader : BOOLEAN] :
        e.ocr_reader => e.ADVANCED_PROCESSING }

\* -------------------------------------------------------------- extraction
Ok(update) == [raised |-> FALSE, exc |-> None, update |-> update]
Raise(exc) == [raised |-> TRUE, exc |-> exc, update |-> [x \in {} |-> None]]

process_pdf(file, env) ==
    IF ~env.PDF_AVAILABLE
    THEN Raise("PDF processing libraries not available")
    ELSE IF file.corrupt THEN Raise("Error processing PDF")
    ELSE Ok([text_content |-> file.content,
             metadata |-> [pages |-> file.units,
                           method |-> IF env.ADVANCED_PROCESSING
                                      THEN "pdfplumber" ELSE "PyPDF2"]])

process_word_document(file, env) ==
    IF ~env.PDF_AVAILABLE
    THEN Raise("Word processing libraries not available")
    ELSE IF file.corrupt THEN Raise("Error processing Word document")
    ELSE IF env.ADVANCED_PROCESSING
            /\ EndsWith(file.suffix, <<".", "d", "o", "c", "x">>)
    THEN Ok([text_content |-> file.content,
             metadata |-> [method |-> "mammoth", warnings |-> file.units]])
    ELSE Ok([text_content |-> file.content,
             metadata |-> [paragraphs |-> file.units, method |-> "python-docx"]])

\* len(content.split('\n'))
LineCount(content) == 1 + Cardinality({i \in 1..Len(content) : content[i] = "\n"})

process_text_file(file) ==
    IF file.corrupt THEN Raise("Error processing text file")
    ELSE Ok([text_content |-> file.content,
             metadata |-> [lines |-> LineCount(file.content),
                           characters |-> Len(file.content),
                           method |-> "direct_read"]])

RECURSIVE JoinWith(_, _)
\* sep.join(parts)
JoinWith(parts, sep) ==
    IF parts = <<>> THEN <<>>
    ELSE IF Len(parts) = 1 THEN parts[1]
    ELSE parts[1] \o sep \o JoinWith(Tail(parts), sep)

RECURSIVE SumConf(_)
SumConf(regions) ==
    IF regions = <<>> THEN 0 ELSE regions[1][2] + SumConf(Tail(regions))

\* the confidence threshold of the easyocr regions, in hundredths
ocr_keep_threshold == 50

RECURSIVE KeptTexts(_)
\* [r[1] for r in ocr_results if r[2] > 0.5]
KeptTexts(regions) ==
    IF regions = <<>> THEN <<>>
    ELSE IF regions[1][2] > ocr_keep_threshold
         THEN <<regions[1][1]>> \o KeptTexts(Tail(regions))
         ELSE KeptTexts(Tail(regions))

medical_chart_data ==
    [type |-> "medical_chart",
     analysis |-> "Basic chart detected - advanced analysis requires specialized libraries",
     recommendation |-> "Consider manual review by healthcare professional"]

process_image(file, env) ==
    IF ~env.PDF_AVAILABLE
    THEN Raise("Image processing libraries not available")
    ELSE IF file.corrupt THEN Raise("Error processing image")
    ELSE
    LET dims == [width |-> file.units, height |-> file.units, channels |-> 3]
        useEasy == env.ocr_reader /\ env.ADVANCED_PROCESSING /\ ~file.easyocr_fails
        text1 == IF useEasy THEN JoinWith(KeptTexts(file.regions), <<" ">>) ELSE <<>>
        meta1 == IF useEasy
                 THEN dims @@ [method |-> "easyocr",
                               confidence |-> IF file.regions # <<>>
                                              THEN SumConf(file.regions) \div Len(file.regions)
                                              ELSE 0]
                 ELSE dims
        useTess == text1 = <<>> /\ ~file.tess_fails
        text2 == IF useTess THEN Strip(file.tess_text) ELSE text1
        meta2 == IF useTess THEN [method |-> "tesseract"] @@ meta1 ELSE meta1
    IN  IF file.chart = "raises" THEN Raise("Error processing image")
        ELSE IF file.chart = "yes"
        THEN Ok([text_content |-> text2,
                 metadata |-> meta2 @@ [medical_chart_data |-> medical_chart_data]])
        ELSE Ok([text_content |-> text2, metadata |-> meta2])

EmptyMetadata == [x \in {} |-> None]
NoResult == [x \in {} |-> None]

\* lines 93-104
InitialResult(file) ==
    [ file_path |-> file.name, file_name |-> file.name,
      file_extension |-> Lower(file.suffix),
      file_size_bytes |-> file.size,
      text_content |-> <<>>, metadata |-> EmptyMetadata,
      document_type |-> "unknown", confidence_score |-> FZero,
      error |-> None ]

Unavailable(msg) == Ok([error |-> msg])

\* lines 107-126: the extractor of the extension's family
Route(file, env, file_extension) ==
    IF InFamily(file_extension, "pdf")
    THEN IF env.PDF_AVAILABLE THEN process_pdf(file, env)
         ELSE Unavailable("PDF processing libraries not available. Please install with: pip install PyPDF2")
    ELSE IF InFamily(file_extension, "word")
    THEN IF env.PDF_AVAILABLE THEN process_word_document(file, env)
         ELSE Unavailable("Word processing libraries not available. Please install with: pip install python-docx")
    ELSE IF InFamily(file_extension, "text")
    THEN process_text_file(file)
    ELSE IF InFamily(file_extension, "image")
    THEN IF env.PDF_AVAILABLE THEN process_image(file, env)
         ELSE Unavailable("Image processing libraries not available. Please install with: pip install opencv-python pytesseract")
    ELSE Unavailable("Unsupported file format")

\* result.update(...) of lines 110-122, or the handler of lines 133-135
Updated(result, routed) ==
    IF routed.raised THEN [result EXCEPT !.error = routed.exc]
    ELSE routed.update @@ result

Scored(result) ==
    [result EXCEPT !.confidence_score = calculate_confidence_score(result)]

\* classification without the score of line 131
ClassifyWithoutScore(result) ==
    IF result.text_content # <<>> /\ result.error = None
    THEN [result EXCEPT !.document_type = classify_document_type(result.text_content)]
    ELSE result

\* lines 128-131
ClassifyAndScore(result) ==
    IF result.text_content # <<>> /\ result.error = None
    THEN Scored([result EXCEPT !.document_type =
                    classify_document_type(result.text_content)])
    ELSE result

\* process_document(file_path): raised models an exception that leaves the
\* function (the FileNotFoundError of line 88 is outside its try block)
process_document(file, env) ==
    IF ~file.exists THEN [raised |-> TRUE, exc |-> "File not found", result |-> NoResult]
    ELSE [raised |-> FALSE, exc |-> None,
          result |-> ClassifyAndScore(
                         Updated(InitialResult(file),
                                 Route(file, env, Lower(file.suffix))))]

\* ------------------------------------------------ regular expressions (re)
(* The patterns of HealthLLMService, matched as Python's backtracking      *)
(* engine matches them: leftmost match, greedy quantifiers tried longest   *)
(* first, alternatives in order.  A pattern is a sequence of items:        *)
(*   rep  - one character class repeated at least min times (greedy)       *)
(*   lit  - a literal                                                      *)
(*   alt  - literal alternatives in order                                  *)
(*   opt  - an optional sub-pattern (greedy)                               *)
(*   open / close - the parentheses of capture group g                     *)
Digits == {"0", "1", "2", "3", "4", "5", "6", "7", "8", "9"}
LowerLetters == {ToLower[c] : c \in DOMAIN ToLower}
Letters == DOMAIN ToLower \cup LowerLetters
WordChars == Letters \cup Digits \cup {"_"}

Rep(class, min) == [kind |-> "rep", class |-> class, min |-> min]
Lit(text) == [kind |-> "lit", text |-> text]
Alt(options) == [kind |-> "alt", options |-> options]
Opt(items) == [kind |-> "opt", items |-> items]
Open(g) == [kind |-> "open", g |-> g]
Close(g) == [kind |-> "close", g |-> g]

NoMatch == [ok |-> FALSE]

\* does the literal lit stand in text at position pos (ic: re.IGNORECASE)
LitAt(text, pos, lit, ic) ==
    /\ pos + Len(lit) - 1 <= Len(text)
    /\ \A k \in 1..Len(lit) :
          IF ic THEN LowerChar(text[pos + k - 1]) = LowerChar(lit[k])
          ELSE text[pos + k - 1] = lit[k]

\* length of the longest run of characters of class that starts at pos
RunLength(text, pos, class) ==
    LET stops == {k \in pos..Len(text) : text[k] \notin class}
    IN  IF stops = {} THEN Len(text) - pos + 1
        ELSE (CHOOSE k \in stops : \A j \in stops : k <= j) - pos

RECURSIVE MatchHere(_, _, _, _, _)
RECURSIVE TryRep(_, _, _, _, _, _)
RECURSIVE TryAlt(_, _, _, _, _, _)

\* match items against text from position pos; caps maps a group to
\* <<start, end>> (end exclusive); the first match in priority order
MatchHere(items, text, pos, caps, ic) ==
    IF items = <<>> THEN [ok |-> TRUE, end |-> pos, caps |-> caps]
    ELSE LET item == Head(items)
             rest == Tail(items)
         IN  CASE item.kind = "rep" ->
                    TryRep(items, text, pos, RunLength(text, pos, item.class), caps, ic)
               [] item.kind = "lit" ->
                    IF LitAt(text, pos, item.text, ic)
                    THEN MatchHere(rest, text, pos + Len(item.text), caps, ic)
                    ELSE NoMatch
               [] item.kind = "alt" -> TryAlt(items, text, pos, 1, caps, ic)
               [] item.kind = "opt" ->
                    LET with == MatchHere(item.items \o rest, text, pos, caps, ic)
                    IN  IF with.ok THEN with
                        ELSE MatchHere(rest, text, pos, caps, ic)
               [] item.kind = "open" ->
                    MatchHere(rest, text, pos, (item.g :> <<pos, pos>>) @@ caps, ic)
               [] item.kind = "close" ->
                    MatchHere(rest, text, pos,
                              (item.g :> <<caps[item.g][1], pos>>) @@ caps, ic)

TryRep(items, text, pos, n, caps, ic) ==
    IF n < Head(items).min THEN NoMatch
    ELSE LET r == MatchHere(Tail(items), text, pos + n, caps, ic)
         IN  IF r.ok THEN r ELSE TryRep(items, text, pos, n - 1, caps, ic)

TryAlt(items, text, pos, k, caps, ic) ==
    IF k > Len(Head(items).options) THEN NoMatch
    ELSE LET o == Head(items).options[k]
             r == IF LitAt(text, pos, o, ic)
                  THEN MatchHere(Tail(items), text, pos + Len(o), caps, ic)
                  ELSE NoMatch
         IN  IF r.ok THEN r ELSE TryAlt(items, text, pos, k + 1, caps, ic)

NoCaps == [g \in {} |-> <<0, 0>>]

\* the text of group g of a match ('' for a group that did not take part)
Group(text, m, g) ==
    IF g \in DOMAIN m.caps THEN SubSeq(text, m.caps[g][1], m.caps[g][2] - 1)
    ELSE <<>>

RECURSIVE FindAllFrom(_, _, _, _)
RECURSIVE FindAllAfter(_, _, _, _, _)
\* re.findall(pattern, text): the matches left to right, not overlapping
FindAllFrom(items, text, pos, ic) ==
    IF pos > Len(text) THEN <<>>
    ELSE FindAllAfter(items, text, pos, ic, MatchHere(items, text, pos, NoCaps, ic))

\* the rest of the scan, given the outcome m of the attempt at pos
FindAllAfter(items, text, pos, ic, m) ==
    IF m.ok
    THEN <<m>> \o FindAllFrom(items, text, IF m.end > pos THEN m.end ELSE pos + 1, ic)
    ELSE FindAllFrom(items, text, pos + 1, ic)

FindAll(items, text, ic) == FindAllFrom(items, text, 1, ic)

\* re.search(pattern, text): the leftmost match, or NoMatch
Search(items, text, ic) ==
    LET starts == {p \in 1..Len(text) : MatchHere(items, text, p, NoCaps, ic).ok}
    IN  IF starts = {} THEN NoMatch
        ELSE MatchHere(items, text, CHOOSE p \in starts : \A q \in starts : p <= q,
                       NoCaps, ic)

\* ------------------------------------------------------------ float(), int()
DigitValue ==
    ("0" :> 0) @@ ("1" :> 1) @@ ("2" :> 2) @@ ("3" :> 3) @@ ("4" :> 4) @@
    ("5" :> 5) @@ ("6" :> 6) @@ ("7" :> 7) @@ ("8" :> 8) @@ ("9" :> 9)

RECURSIVE ParseInt(_)
\* int(s) for a string of digits
ParseInt(s) ==
    IF s = <<>> THEN 0
    ELSE 10 * ParseInt(SubSeq(s, 1, Len(s) - 1)) + DigitValue[s[Len(s)]]

RECURSIVE Normalise(_, _)
Normalise(mant, places) ==
    IF places > 0 /\ mant % 10 = 0 THEN Normalise(mant \div 10, places - 1)
    ELSE <<mant, places>>

\* float(s) for s over digits and '.': the value mant / 10^places as the
\* normalised pair <<mant, places>>; ValueError for no digit or two dots
ParseFloat(s) ==
    LET dots == {i \in 1..Len(s) : s[i] = "."}
        digits == SelectSeq(s, LAMBDA c : c \in Digits)
    IN  IF Cardinality(dots) > 1 \/ digits = <<>>
        THEN [raised |-> TRUE, exc |-> "ValueError", value |-> <<0, 0>>]
        ELSE [raised |-> FALSE, exc |-> None,
              value |-> Normalise(ParseInt(digits),
                                  IF dots = {} THEN 0
                                  ELSE Len(s) - (CHOOSE i \in dots : TRUE))]

\* ------------------------------------- HealthLLMService: data extractors
Spaces == Whitespace
ColonSpace == Whitespace \cup {":"}
DigitDot == Digits \cup {"."}
UnitChars == Letters \cup {"/"}

dose_units == << <<"m", "g">>, <<"g">>, <<"m", "l">>, <<"m", "c", "g">> >>

\* (\w+)\s*(\d+(?:\.\d+)?)\s*(mg|g|ml|mcg)   and   (\w+)\s*-\s*(\d+)\s*(mg|g|ml|mcg)
med_patterns ==
    << << Open(1), Rep(WordChars, 1), Close(1), Rep(Spaces, 0),
          Open(2), Rep(Digits, 1), Opt(<<Lit(<<".">>), Rep(Digits, 1)>>), Close(2),
          Rep(Spaces, 0), Open(3), Alt(dose_units), Close(3) >>,
       << Open(1), Rep(WordChars, 1), Close(1), Rep(Spaces, 0), Lit(<<"-">>),
          Rep(Spaces, 0), Open(2), Rep(Digits, 1), Close(2),
          Rep(Spaces, 0), Open(3), Alt(dose_units), Close(3) >> >>

\* (\w+)[:\s]*([\d.]+)\s*([a-zA-Z/]+)   and   (\w+)[:\s]*([\d.]+)
lab_patterns ==
    << << Open(1), Rep(WordChars, 1), Close(1), Rep(ColonSpace, 0),
          Open(2), Rep(DigitDot, 1), Close(2), Rep(Spaces, 0),
          Open(3), Rep(UnitChars, 1), Close(3) >>,
       << Open(1), Rep(WordChars, 1), Close(1), Rep(ColonSpace, 0),
          Open(2), Rep(DigitDot, 1), Close(2) >> >>

\* heart rate[:\s]*(\d+)
hr_pattern ==
    << Lit(<<"h", "e", "a", "r", "t", " ", "r", "a", "t", "e">>), Rep(ColonSpace, 0),
       Open(1), Rep(Digits, 1), Close(1) >>

\* PR[:\s]*(interval[:\s]*)?(\d+)
pr_pattern ==
    << Lit(<<"P", "R">>), Rep(ColonSpace, 0),
       Opt(<< Open(1), Lit(<<"i", "n", "t", "e", "r", "v", "a", "l">>),
              Rep(ColonSpace, 0), Close(1) >>),
       Open(2), Rep(Digits, 1), Close(2) >>

\* QRS[:\s]*(\d+)
qrs_pattern ==
    << Lit(<<"Q", "R", "S">>), Rep(ColonSpace, 0),
       Open(1), Rep(Digits, 1), Close(1) >>

\* _extract_ecg_data(text): the fields found, absent when not matched
EcgField(text, m, g, key) ==
    IF m.ok THEN (key :> ParseInt(Group(text, m, g))) ELSE EmptyMetadata

_extract_ecg_data(text) ==
    EcgField(text, Search(hr_pattern, text, TRUE), 1, "heart_rate")
    @@ EcgField(text, Search(pr_pattern, text, TRUE), 2, "pr_interval")
    @@ EcgField(text, Search(qrs_pattern, text, TRUE), 1, "qrs_duration")

MedRow(text, m) ==
    [name |-> Group(text, m, 1),
     dose |-> ParseFloat(Group(text, m, 2)).value,
     unit |-> Lower(Group(text, m, 3))]

MedRows(text, matches) == [i \in 1..Len(matches) |-> MedRow(text, matches[i])]

\* _extract_medications_from_text(text)
_extract_medications_from_text(text) ==
    MedRows(text, FindAll(med_patterns[1], text, TRUE))
    \o MedRows(text, FindAll(med_patterns[2], text, TRUE))

LabRow3(text, m) ==
    [test |-> Group(text, m, 1),
     value |-> ParseFloat(Group(text, m, 2)).value,
     unit |-> Group(text, m, 3)]

LabRow2(text, m) ==
    [test |-> Group(text, m, 1),
     value |-> ParseFloat(Group(text, m, 2)).value,
     unit |-> <<>>]

\* _extract_lab_values(text): float() raises ValueError on a value such as
\* '.' or '1.2.3', and the exception leaves the function
BadValue(text, matches) ==
    \E i \in 1..Len(matches) : ParseFloat(Group(text, matches[i], 2)).raised

LabRows(text, m1, m2) ==
    IF BadValue(text, m1) \/ BadValue(text, m2)
    THEN [raised |-> TRUE, exc |-> "ValueError", value |-> <<>>]
    ELSE [raised |-> FALSE, exc |-> None,
          value |-> [i \in 1..Len(m1) |-> LabRow3(text, m1[i])]
                    \o [i \in 1..Len(m2) |-> LabRow2(text, m2[i])]]

_extract_lab_values(text) ==
    LabRows(text, FindAll(lab_patterns[1], text, FALSE),
                  FindAll(lab_patterns[2], text, FALSE))

RECURSIVE Split(_, _)
\* text.split(sep) for a one-character separator
Split(text, sep) ==
    LET at == {i \in 1..Len(text) : text[i] = sep}
    IN  IF at = {} THEN <<text>>
        ELSE LET i == CHOOSE k \in at : \A j \in at : k <= j
             IN  <<SubSeq(text, 1, i - 1)>> \o Split(SubSeq(text, i + 1, Len(text)), sep)

RECURSIVE KeepSentences(_, _)
\* [s.strip() for s in sentences if any(k in s.lower() for k in keywords)]
KeepSentences(sentences, keywords) ==
    IF sentences = <<>> THEN <<>>
    ELSE LET here == IF \E k \in 1..Len(keywords) :
                            Contains(Lower(sentences[1]), keywords[k])
                     THEN <<Strip(sentences[1])>> ELSE <<>>
         IN  here \o KeepSentences(Tail(sentences), keywords)

medical_keywords ==
    << <<"d", "i", "a", "g", "n", "o", "s", "i", "s">>,
       <<"t", "r", "e", "a", "t", "m", "e", "n", "t">>,
       <<"m", "e", "d", "i", "c", "a", "t", "i", "o", "n">>,
       <<"f", "o", "l", "l", "o", "w", "-", "u", "p">>,
       <<"r", "e", "c", "o", "m", "m", "e", "n", "d", "a", "t", "i", "o", "n">> >>

action_keywords ==
    << <<"f", "o", "l", "l", "o", "w", " ", "u", "p">>,
       <<"s", "c", "h", "e", "d", "u", "l", "e">>,
       <<"r", "e", "t", "u", "r", "n">>,
       <<"c", "o", "n", "t", "a", "c", "t">>,
       <<"m", "o", "n", "i", "t", "o", "r">>,
       <<"c", "o", "n", "t", "i", "n", "u", "e">>,
       <<"s", "t", "o", "p">> >>

\* the cap of _extract_key_points
max_key_points == 5

\* _extract_key_points(text)
_extract_key_points(text) ==
    LET kept == KeepSentences(Split(text, "."), medical_keywords)
    IN  SubSeq(kept, 1, Min(Len(kept), max_key_points))

\* _identify_action_items(text)
_identify_action_items(text) ==
    KeepSentences(Split(text, "."), action_keywords)

common_terms ==
    << <<<<"h", "y", "p", "e", "r", "t", "e", "n", "s", "i", "o", "n">>, "High blood pressure">>,
       <<<<"d", "i", "a", "b", "e", "t", "e", "s">>, "High blood sugar condition">>,
       <<<<"h", "y", "p", "e", "r", "l", "i", "p", "i", "d", "e", "m", "i", "a">>, "High cholesterol">>,
       <<<<"t", "a", "c", "h", "y", "c", "a", "r", "d", "i", "a">>, "Fast heart rate">>,
       <<<<"b", "r", "a", "d", "y", "c", "a", "r", "d", "i", "a">>, "Slow heart rate">> >>

\* _explain_medical_terms(text): term -> explanation for the terms found
_explain_medical_terms(text) ==
    LET found == {k \in 1..Len(common_terms) :
                     Contains(Lower(text), common_terms[k][1])}
    IN  [t \in {common_terms[k][1] : k \in found} |->
            LET k == CHOOSE j \in found : common_terms[j][1] = t
            IN  common_terms[k][2]]

abnormal_indicators ==
    << <<"h", "i", "g", "h">>,
       <<"l", "o", "w">>,
       <<"a", "b", "n", "o", "r", "m", "a", "l">>,
       <<"e", "l", "e", "v", "a", "t", "e", "d">>,
       <<"d", "e", "c", "r", "e", "a", "s", "e", "d">>,
       <<"*">>,
       <<"H">>,
       <<"L">> >>

\* _identify_abnormal_values(text): the stripped lines that hold an indicator
_identify_abnormal_values(text) ==
    KeepSentences(Split(text, "\n"), abnormal_indicators)

\* --------------------------- HealthLLMService: medication interactions
\* common_interactions of _basic_interaction_check: <<first, second, effect>>
common_interactions ==
    << << <<"w", "a", "r", "f", "a", "r", "i", "n">>, <<"a", "s", "p", "i", "r", "i", "n">>, "Increased bleeding risk" >>,
       << <<"m", "e", "t", "f", "o", "r", "m", "i", "n">>, <<"a", "l", "c", "o", "h", "o", "l">>, "Risk of lactic acidosis" >>,
       << <<"s", "t", "a", "t", "i", "n", "s">>, <<"g", "r", "a", "p", "e", "f", "r", "u", "i", "t">>, "Increased statin levels" >> >>

\* common_interactions[key] for key = (first, second), None without the key
InteractionOf(first, second) ==
    IF \E k \in 1..Len(common_interactions) : common_interactions[k][1] = first /\ common_interactions[k][2] = second
    THEN common_interactions[CHOOSE k \in 1..Len(common_interactions) : common_interactions[k][1] = first /\ common_interactions[k][2] = second][3]
    ELSE None

\* key1 in common_interactions, elif key2 in common_interactions
PairInteraction(med1, med2) ==
    IF InteractionOf(Lower(med1), Lower(med2)) # None
    THEN InteractionOf(Lower(med1), Lower(med2))
    ELSE InteractionOf(Lower(med2), Lower(med1))

RECURSIVE PairsFrom(_, _, _)
\* the pairs (i, j) the two loops visit from (i, j) on, in their order
PairsFrom(i, j, n) ==
    IF i >= n THEN <<>>
    ELSE IF j > n THEN PairsFrom(i + 1, i + 2, n)
    ELSE << <<i, j>> >> \o PairsFrom(i, j + 1, n)

\* the entry appended for the pair of positions p
InteractionEntry(medications, p) ==
    [medications |-> << medications[p[1]], medications[p[2]] >>,
     interaction |-> PairInteraction(medications[p[1]], medications[p[2]]),
     severity |-> "moderate"]

\* the entries of the pairs, in order, that have an interaction
EntriesOf(medications, pairs) ==
    LET hit(p) == PairInteraction(medications[p[1]], medications[p[2]]) # None
        hits == SelectSeq(pairs, hit)
    IN  [k \in 1..Len(hits) |-> InteractionEntry(medications, hits[k])]

advisory_warning == "Always consult your healthcare provider about medication interactions"

_basic_interaction_check(medications) ==
    [interactions |-> EntriesOf(medications, PairsFrom(1, 2, Len(medications))),
     warnings |-> << advisory_warning >>]

\* now is datetime.utcnow()
_parse_interaction_response(response, now) ==
    [interactions |-> <<>>, analysis |-> response, timestamp |-> now]

\* analyze_medication_interactions(medications) for a list of strings; response
\* is what _query_openai returns when a client is configured
analyze_medication_interactions(medications, client, response, now) ==
    IF Len(medications) < 2 THEN [interactions |-> <<>>, warnings |-> <<>>]
    ELSE IF client THEN _parse_interaction_response(response, now)
    ELSE _basic_interaction_check(medications)

\* ------------------------------------- HealthLLMService: category analysis
(* A text the service builds is the record <<fixed part, formatted          *)
(* argument, body, length>>: fixed is the literal of the source, body the  *)
(* text a backend returned, len the length of the whole string.            *)
RECURSIVE DecimalLength(_)
\* len(str(n))
DecimalLength(n) == IF n < 10 THEN 1 ELSE 1 + DecimalLength(n \div 10)

StaticText(fixed, len) == [fixed |-> fixed, arg |-> 0, body |-> <<>>, len |-> len]
BackendText(body) == [fixed |-> "", arg |-> 0, body |-> body, len |-> Len(body)]
EmptyText == StaticText("", 0)

\* the outcomes of _query_openai: the completion, or '' when the call failed
BackendTexts == {<<>>, <<"o", "k">>}

ErrorPayload(msg) == [error |-> msg]
NoPayload == [x \in {} |-> None]

_basic_ecg_analysis(text) ==
    [document_type |-> "ecg_analysis",
     analysis |-> StaticText("ECG document detected. Professional interpretation recommended.", 63),
     extracted_data |-> _extract_ecg_data(text),
     disclaimer |-> "Consult a cardiologist for proper ECG interpretation."]

\* the payload of _basic_blood_test_analysis, given what _extract_lab_values
\* returned or raised
BloodTestPayload(values) ==
    IF values.raised THEN [raised |-> TRUE, exc |-> values.exc, payload |-> NoPayload]
    ELSE [raised |-> FALSE, exc |-> None, payload |->
            [document_type |-> "blood_test_analysis",
             analysis |-> StaticText("Blood test results detected. Review with healthcare provider.", 61),
             extracted_values |-> values.value,
             disclaimer |-> "Discuss results with your healthcare provider."]]

_basic_blood_test_analysis(text) == BloodTestPayload(_extract_lab_values(text))

_basic_prescription_analysis(text) ==
    [document_type |-> "prescription_analysis",
     analysis |-> StaticText("Prescription document processed.", 32),
     medications |-> _extract_medications_from_text(text),
     disclaimer |-> "Follow your doctor's instructions exactly."]

\* f"Medical document processed. {len(text)} characters extracted."
_basic_document_summary(text) ==
    [document_type |-> "general_medical_analysis",
     analysis |-> [fixed |-> "Medical document processed. {} characters extracted.",
                   arg |-> Len(text), body |-> <<>>,
                   len |-> 28 + DecimalLength(Len(text)) + 22],
     key_points |-> _extract_key_points(text),
     disclaimer |-> "Consult healthcare providers for medical interpretation."]

(* With a client the ecg, blood test, prescription, radiology and lab       *)
(* report branches build their payload with helper methods the class does  *)
(* not define (_get_ecg_recommendations, _suggest_trending_parameters,     *)
(* _get_medication_adherence_tips, _identify_imaging_type,                 *)
(* _categorize_lab_tests); without a client radiology and lab report call  *)
(* the undefined _basic_radiology_analysis and _basic_lab_analysis.  The   *)
(* AttributeError is caught by the method's own except clause.             *)
\* try: return ... except Exception: return {"error": ...}
Caught(outcome, msg) == IF outcome.raised THEN ErrorPayload(msg) ELSE outcome.payload

analyze_ecg_report(text, client, response) ==
    IF client THEN ErrorPayload("ECG analysis failed")
    ELSE _basic_ecg_analysis(text)

analyze_blood_test_results(text, client, response) ==
    IF client THEN ErrorPayload("Blood test analysis failed")
    ELSE Caught(_basic_blood_test_analysis(text), "Blood test analysis failed")

analyze_prescription(text, client, response) ==
    IF client THEN ErrorPayload("Prescription analysis failed")
    ELSE _basic_prescription_analysis(text)

analyze_radiology_report(text, client, response) ==
    ErrorPayload("Radiology analysis failed")

analyze_lab_report(text, client, response) ==
    ErrorPayload("Lab report analysis failed")

analyze_general_medical_document(text, client, response) ==
    IF client
    THEN [document_type |-> "general_medical_analysis",
          analysis |-> BackendText(response),
          key_points |-> _extract_key_points(text),
          action_items |-> _identify_action_items(text),
          medical_terms |-> _explain_medical_terms(text),
          disclaimer |-> "This analysis is for informational purposes. Consult your healthcare provider for medical advice."]
    ELSE _basic_document_summary(text)

\* analyze_document_comprehensive(document_data); response is what the
\* backend answers to the category request, if one is sent
analyze_document_comprehensive(document_data, client, response) ==
    LET text_content == document_data.text_content
        document_type == document_data.document_type
    IN  IF Strip(text_content) = <<>>
        THEN ErrorPayload("No text content to analyze")
        ELSE CASE document_type = "ecg" ->
                    analyze_ecg_report(text_content, client, response)
               [] document_type = "blood_test" ->
                    analyze_blood_test_results(text_content, client, response)
               [] document_type = "prescription" ->
                    analyze_prescription(text_content, client, response)
               [] document_type = "radiology" ->
                    analyze_radiology_report(text_content, client, response)
               [] document_type = "lab_report" ->
                    analyze_lab_report(text_content, client, response)
               [] OTHER ->
                    analyze_general_medical_document(text_content, client, response)

HasKey(d, k) == k \in DOMAIN d

\* dict.get(key, default)
Get(d, k, default) == IF k \in DOMAIN d THEN d[k] ELSE default

\* generate_document_summary(document_data): runs the category analysis
\* again (response1) and then asks the backend for the summary (response2)
SummaryOf(analysis, client, response2) ==
    IF HasKey(analysis, "error")
    THEN [fixed |-> "Analysis Error: {}", detail |-> analysis.error,
          n |-> 0, body |-> <<>>]
    ELSE IF client
    THEN [fixed |-> "", detail |-> "", n |-> 0, body |-> Strip(response2)]
    ELSE [fixed |-> "Document processed: {}. {} characters of analysis generated.",
          detail |-> Get(analysis, "document_type", "unknown"),
          n |-> Get(analysis, "analysis", EmptyText).len, body |-> <<>>]

generate_document_summary(document_data, client, response1, response2) ==
    SummaryOf(analyze_document_comprehensive(document_data, client, response1),
              client, response2)

\* ---------------------------------------------------------- DocumentService
tag_mappings ==
    [
      ecg |->
        << <<"c", "a", "r", "d", "i", "o", "l", "o", "g", "y">>,
           <<"h", "e", "a", "r", "t">>,
           <<"d", "i", "a", "g", "n", "o", "s", "t", "i", "c">> >>,
      blood_test |->
        << <<"l", "a", "b", "o", "r", "a", "t", "o", "r", "y">>,
           <<"b", "l", "o", "o", "d">>,
           <<"t", "e", "s", "t", "_", "r", "e", "s", "u", "l", "t", "s">> >>,
      prescription |->
        << <<"m", "e", "d", "i", "c", "a", "t", "i", "o", "n">>,
           <<"p", "h", "a", "r", "m", "a", "c", "y">>,
           <<"t", "r", "e", "a", "t", "m", "e", "n", "t">> >>,
      radiology |->
        << <<"i", "m", "a", "g", "i", "n", "g">>,
           <<"d", "i", "a", "g", "n", "o", "s", "t", "i", "c">>,
           <<"r", "a", "d", "i", "o", "l", "o", "g", "y">> >>,
      lab_report |->
        << <<"l", "a", "b", "o", "r", "a", "t", "o", "r", "y">>,
           <<"t", "e", "s", "t", "_", "r", "e", "s", "u", "l", "t", "s">>,
           <<"c", "l", "i", "n", "i", "c", "a", "l">> >>,
      medical_document |->
        << <<"m", "e", "d", "i", "c", "a", "l">>,
           <<"h", "e", "a", "l", "t", "h", "c", "a", "r", "e">>,
           <<"c", "l", "i", "n", "i", "c", "a", "l">> >> ]

default_tags ==
    << <<"m", "e", "d", "i", "c", "a", "l">>,
       <<"d", "o", "c", "u", "m", "e", "n", "t">> >>

\* tag_mappings.get(document_type, ['medical', 'document'])
SystemTagNames(document_type) ==
    IF document_type \in DOMAIN tag_mappings THEN tag_mappings[document_type]
    ELSE default_tags

\* the mutant gives every document the default tags
_add_system_tags_default_only(document_id, document_type) ==
    [i \in 1..Len(default_tags) |->
        [document_id |-> document_id, tag_name |-> default_tags[i], tag_type |-> "system"]]

\* _add_system_tags(session, document_id, document_type): the rows added
_add_system_tags(document_id, document_type) ==
    LET tags == SystemTagNames(document_type)
    IN  [i \in 1..Len(tags) |->
            [document_id |-> document_id, tag_name |-> tags[i], tag_type |-> "system"]]

\* json.dumps(value): the value as a JSON document
(* A JSON document is the sequence of its tokens: the brackets, braces,    *)
(* commas and colons, and one token for each string or number, which holds *)
(* the value the literal is read back as (json.loads inverts the escapes   *)
(* of a string and the repr of a float).  What json.dumps does with a      *)
(* value depends on its Python type, which the shape names: a string or a  *)
(* number, a list, a dict of values of one shape, or a dict whose values   *)
(* have the shape of their key.                                            *)
Atom == [k |-> "atom"]
ListOf(shape) == [k |-> "list", of |-> shape]
DictOf(shape) == [k |-> "dict", of |-> shape]
Payload == [k |-> "payload"]

\* the Python type of the value of key in a payload or in the metadata
ShapeOfKey(key) ==
    IF key \in {"key_points", "action_items", "key_findings", "recommendations"} THEN ListOf(Atom)
    ELSE IF key \in {"medications", "extracted_values"} THEN ListOf(DictOf(Atom))
    ELSE IF key \in {"extracted_data", "medical_terms", "medical_chart_data"} THEN DictOf(Atom)
    ELSE Atom

Token(t) == [t |-> t]
Literal(value) == [t |-> "literal", v |-> value]

RECURSIVE KeysInOrder(_)
\* the keys of a dict, one after the other
KeysInOrder(keys) ==
    IF keys = {} THEN <<>>
    ELSE <<CHOOSE key \in keys : TRUE>> \o KeysInOrder(keys \ {CHOOSE key \in keys : TRUE})

RECURSIVE Separated(_)
\* the documents of parts with a comma between them
Separated(parts) ==
    IF Len(parts) = 0 THEN <<>>
    ELSE IF Len(parts) = 1 THEN parts[1]
    ELSE parts[1] \o <<Token(",")>> \o Separated(Tail(parts))

RECURSIVE json_dumps(_, _)
RECURSIVE MembersOf(_, _, _)
\* the documents of the members of a dict, for its keys in order
MembersOf(value, keys, shape) ==
    [i \in 1..Len(keys) |->
        <<Literal(keys[i]), Token(":")>>
        \o json_dumps(value[keys[i]], IF shape.k = "dict" THEN shape.of ELSE ShapeOfKey(keys[i]))]

\* json.dumps(value) for a value of the Python type shape
json_dumps(value, shape) ==
    IF shape.k = "atom" THEN <<Literal(value)>>
    ELSE IF shape.k = "list"
    THEN <<Token("[")>> \o Separated([i \in 1..Len(value) |-> json_dumps(value[i], shape.of)]) \o <<Token("]")>>
    ELSE <<Token("{")>> \o Separated(MembersOf(value, KeysInOrder(DOMAIN value), shape)) \o <<Token("}")>>

\* the dict of the members read: for a key read twice the last value
DictOfMembers(members) ==
    [key \in {members[j][1] : j \in 1..Len(members)} |->
        members[CHOOSE j \in 1..Len(members) :
                   members[j][1] = key /\ \A l \in (j + 1)..Len(members) : members[l][1] # key][2]]

RECURSIVE ParseValue(_, _)
RECURSIVE ParseItems(_, _, _)
RECURSIVE ParseMembers(_, _, _)
\* the value that starts at token i and the position after it
ParseValue(tokens, i) ==
    IF tokens[i].t = "literal" THEN [value |-> tokens[i].v, next |-> i + 1]
    ELSE IF tokens[i].t = "[" THEN ParseItems(tokens, i + 1, <<>>)
    ELSE ParseMembers(tokens, i + 1, <<>>)

\* the list goes on after the item parsed
AfterItem(tokens, items, parsed) == ParseItems(tokens, parsed.next, Append(items, parsed.value))

\* the rest of a list after the items read
ParseItems(tokens, i, items) ==
    IF tokens[i].t = "]" THEN [value |-> items, next |-> i + 1]
    ELSE IF tokens[i].t = "," THEN ParseItems(tokens, i + 1, items)
    ELSE AfterItem(tokens, items, ParseValue(tokens, i))

\* the dict goes on after the member of key parsed
AfterMember(tokens, members, key, parsed) == ParseMembers(tokens, parsed.next, Append(members, <<key, parsed.value>>))

\* the rest of a dict after the members read: key, colon, value
ParseMembers(tokens, i, members) ==
    IF tokens[i].t = "}" THEN [value |-> DictOfMembers(members), next |-> i + 1]
    ELSE IF tokens[i].t = "," THEN ParseMembers(tokens, i + 1, members)
    ELSE AfterMember(tokens, members, tokens[i].v, ParseValue(tokens, i + 2))

\* json.loads(document)
json_loads(document) == ParseValue(document, 1).value

\* the rows _store_analysis_results adds to its session (lines 99-143)
AnalysisRows(document_id, processing_result, llm_analysis, summary, user_id, processing_duration) ==
    [ document |->
        [ id |-> document_id,
          user_id |-> user_id,
          file_name |-> processing_result.file_name,
          file_path |-> processing_result.file_path,
          file_extension |-> processing_result.file_extension,
          file_size_bytes |-> processing_result.file_size_bytes,
          document_type |-> processing_result.document_type,
          confidence_score |-> processing_result.confidence_score,
          processing_method |-> Get(processing_result.metadata, "method", "unknown"),
          processing_duration |-> processing_duration,
          text_content |-> processing_result.text_content,
          extracted_data |-> json_dumps(processing_result.metadata, Payload),
          llm_analysis |-> json_dumps(llm_analysis, Payload),
          key_findings |-> json_dumps(Get(llm_analysis, "key_findings", <<>>), ListOf(Atom)),
          recommendations |-> json_dumps(Get(llm_analysis, "recommendations", <<>>), ListOf(Atom)),
          medical_terms |-> json_dumps(Get(llm_analysis, "medical_terms", EmptyMetadata), DictOf(Atom)),
          analysis_status |-> "completed",
          is_critical |-> FALSE,
          is_favorite |-> FALSE ],
      summary |->
        [ document_id |-> document_id,
          short_summary |-> summary,
          detailed_summary |-> Get(llm_analysis, "analysis", EmptyText),
          key_points |-> json_dumps(Get(llm_analysis, "key_points", <<>>), ListOf(Atom)),
          action_items |-> json_dumps(Get(llm_analysis, "action_items", <<>>), ListOf(Atom)),
          summary_type |-> "ai_generated",
          model_used |-> IF DOMAIN llm_analysis # {} THEN "gpt-3.5-turbo"
                         ELSE "local_processing" ],
      tags |-> _add_system_tags(document_id, processing_result.document_type) ]

RECURSIVE DigitsOf(_)
\* str(n) for a natural number
DigitsOf(n) ==
    LET d == CHOOSE c \in Digits : DigitValue[c] = n % 10
    IN  IF n < 10 THEN <<d>> ELSE DigitsOf(n \div 10) \o <<d>>

RECURSIVE Pow10(_)
Pow10(k) == IF k = 0 THEN 1 ELSE 10 * Pow10(k - 1)

RECURSIVE ZeroPad(_, _)
ZeroPad(s, width) == IF Len(s) >= width THEN s ELSE ZeroPad(<<"0">> \o s, width)

\* str(x) for a float <<mant, places>>: '5.0', '1.5', '0.25'
StrFloat(v) ==
    IF v[2] = 0 THEN DigitsOf(v[1]) \o <<".", "0">>
    ELSE DigitsOf(v[1] \div Pow10(v[2])) \o <<".">>
         \o ZeroPad(DigitsOf(v[1] % Pow10(v[2])), v[2])

\* the confidence the extracted rows get when the payload names none (0.8)
default_extracted_confidence == 800

\* the rows _extract_and_store_structured_data adds (lines 159-192)
MedicationRows(document_id, llm_analysis) ==
    LET medications == Get(llm_analysis, "medications", <<>>)
    IN  [i \in 1..Len(medications) |->
            [ document_id |-> document_id,
              medication_name |-> Get(medications[i], "name", <<>>),
              dosage |-> Get(medications[i], "dose", <<>>),
              frequency |-> Get(medications[i], "frequency", <<>>),
              duration |-> Get(medications[i], "duration", <<>>),
              instructions |-> Get(medications[i], "instructions", <<>>),
              extracted_confidence |->
                  Get(medications[i], "confidence", default_extracted_confidence) ]]

LabValueRows(document_id, llm_analysis) ==
    LET lab_values == Get(llm_analysis, "extracted_values", <<>>)
    IN  [i \in 1..Len(lab_values) |->
            [ document_id |-> document_id,
              test_name |-> Get(lab_values[i], "test", <<>>),
              value |-> IF HasKey(lab_values[i], "value")
                        THEN StrFloat(lab_values[i].value) ELSE <<>>,
              unit |-> Get(lab_values[i], "unit", <<>>),
              is_abnormal |-> Get(lab_values[i], "is_abnormal", FALSE),
              abnormal_flag |-> Get(lab_values[i], "flag", <<>>),
              extracted_confidence |->
                  Get(lab_values[i], "confidence", default_extracted_confidence) ]]

\* ------------------------------------------------------------------- state
VARIABLES
    env,               \* PDF_AVAILABLE, ADVANCED_PROCESSING and ocr_reader
    openai_client,     \* whether HealthLLMService holds a live client
    pc,                \* per request: where analyze_document_complete stands
    file_path,         \* per request: the file passed in
    user_id,           \* per request: the user passed in
    processing_result, \* per request: local of analyze_document_complete
    llm_analysis,      \* per request: local
    summary,           \* per request: local
    document_id,       \* per request: local (0 before step 4 returns)
    response,          \* per request: the dictionary returned
    session,           \* per request: rows added to the open session
    db,                \* the committed rows of the database
    db_lock,           \* the request whose transaction holds the write lock
    stages,            \* per request: the stages run so far, in order
    vfile,             \* argument of a single validate_file call
    vresult,           \* its result
    input,             \* argument of a single call of a service function
    output,            \* what that call returned or raised
    calls,             \* per caller: a read or tag operation of DocumentService
    screen,            \* DocumentAnalysisScreen: its analyses, threads and dialogs
    notifier,          \* NotificationService: its scheduler, threads and jobs
    llm_calls          \* per request: the calls into HealthLLMService and its backend

vars == << env, openai_client, pc, file_path, user_id, processing_result,
           llm_analysis, summary, document_id, response, session, db, db_lock,
           stages, vfile, vresult, input, output, calls, screen, notifier,
           llm_calls >>

NoDict == [x \in {} |-> None]

TXT == <<".", "t", "x", "t">>
DCM == <<".", "d", "c", "m">>

\* the documents submitted to the pipeline
PipelineFiles ==
    { MakeFile("huge.txt", TXT, 60 * 1024 * 1024, <<>>),
      MakeFile("scan.dcm", DCM, 4, <<>>),
      MakeFile("empty.txt", TXT, 0, <<>>),
      MakeFile("rx.txt", TXT, 8, <<"r", "x", " ", "a", " ", "5", "m", "g">>),
      MakeFile("blood.txt", TXT, 11, <<"b", "l", "o", "o", "d", " ", "x", " ", "5", " ", "g">>),
      MakeFile("note.txt", TXT, 6, <<"a", " ", "n", "o", "t", "e">>) }

\* user_id argument of request r
UserOf(r) == ((r - 1) % Cardinality(Users)) + 1

EmptyDb ==
    [ documents |-> <<>>, summaries |-> <<>>, tags |-> <<>>,
      medications |-> <<>>, lab_values |-> <<>> ]

NoFile == MakeFile("", <<>>, 0, <<>>)

PipelineIdle ==
    /\ pc = [r \in Requests |-> "idle"]
    /\ file_path = [r \in Requests |-> NoFile]
    /\ user_id = [r \in Requests |-> UserOf(r)]
    /\ processing_result = [r \in Requests |-> NoDict]
    /\ llm_analysis = [r \in Requests |-> NoDict]
    /\ summary = [r \in Requests |-> NoDict]
    /\ document_id = [r \in Requests |-> 0]
    /\ response = [r \in Requests |-> NoDict]
    /\ session = [r \in Requests |-> NoDict]
    /\ db = EmptyDb
    /\ db_lock = 0
    /\ stages = [r \in Requests |-> <<>>]
    /\ llm_calls = [r \in Requests |-> <<>>]

Init ==
    /\ env = [PDF_AVAILABLE |-> TRUE, ADVANCED_PROCESSING |-> FALSE, ocr_reader |-> FALSE]
    /\ openai_client \in BOOLEAN
    /\ PipelineIdle
    /\ vfile = NoFile
    /\ vresult = NoDict
    /\ input = NoDict
    /\ output = NoDict
    /\ calls = NoDict
    /\ screen = NoDict
    /\ notifier = NoDict

pipelineLocals == << processing_result, llm_analysis, summary, document_id >>
\* the components outside the pipeline
others == << calls, screen, notifier >>
analysisFrame == << env, openai_client, user_id, vfile, vresult, input, output, others >>
fixedVars == << analysisFrame, llm_calls >>

\* ----------------------------------------- analyze_document_complete, steps
\* the call analyze_document_complete(f, user_id) and its step 1, lines 46-51
Validate(r, f) ==
    /\ pc[r] = "idle"
    /\ file_path' = [file_path EXCEPT ![r] = f]
    /\ LET v == validate_file(f)
       IN  IF ~v.is_valid
           THEN /\ response' = [response EXCEPT ![r] =
                       [error |-> <<"File validation failed", v.message>>]]
                /\ pc' = [pc EXCEPT ![r] = "failed"]
           ELSE /\ pc' = [pc EXCEPT ![r] = "extracting"]
                /\ UNCHANGED response
    /\ stages' = [stages EXCEPT ![r] = Append(@, "validate")]
    /\ UNCHANGED << pipelineLocals, session, db, db_lock, fixedVars >>

\* lines 53-57 without the test of line 54
ProcessIgnoringError(r) ==
    /\ pc[r] = "extracting"
    /\ processing_result' = [processing_result EXCEPT ![r] =
           process_document(file_path[r], env).result]
    /\ pc' = [pc EXCEPT ![r] = "analyzing"]
    /\ stages' = [stages EXCEPT ![r] = Append(@, "extract")]
    /\ UNCHANGED << file_path, llm_analysis, summary, document_id, response,
                    session, db, db_lock, fixedVars >>

\* lines 53-57 (an exception of process_document reaches the handler of line 88)
Process(r) ==
    /\ pc[r] = "extracting"
    /\ LET p == process_document(file_path[r], env)
       IN  IF p.raised
           THEN /\ response' = [response EXCEPT ![r] =
                       [error |-> <<"Analysis failed", p.exc>>, success |-> FALSE]]
                /\ pc' = [pc EXCEPT ![r] = "failed"]
                /\ UNCHANGED processing_result
           ELSE IF p.result.error # None
           THEN /\ response' = [response EXCEPT ![r] =
                       [error |-> <<"Document processing failed", p.result.error>>]]
                /\ pc' = [pc EXCEPT ![r] = "failed"]
                /\ processing_result' = [processing_result EXCEPT ![r] = p.result]
           ELSE /\ processing_result' = [processing_result EXCEPT ![r] = p.result]
                /\ pc' = [pc EXCEPT ![r] = "analyzing"]
                /\ UNCHANGED response
    /\ stages' = [stages EXCEPT ![r] = Append(@, "extract")]
    /\ UNCHANGED << file_path, llm_analysis, summary, document_id, session, db,
                    db_lock, fixedVars >>

\* what one analyze_document_comprehensive(document_data) calls: with a
\* client every category method sends its prompt first (lines 254-427), and
\* analyze_prescription asks for the interactions of two or more medications
AnalysisCalls(document_data, client) ==
    <<"analyze_document_comprehensive">>
      \o (IF client /\ Strip(document_data.text_content) # <<>> THEN <<"category request">> ELSE <<>>)
      \o (IF client /\ document_data.document_type = "prescription" /\ Len(_extract_medications_from_text(document_data.text_content)) >= 2
          THEN <<"interaction request">> ELSE <<>>)

\* what generate_document_summary(document_data) calls, given the summary it
\* returned: the category analysis again (line 445), then the summary
\* prompt (line 463) unless that analysis was an error
SummaryCalls(again, client, returned) ==
    <<"generate_document_summary">>
      \o again
      \o (IF client /\ returned.fixed = "" THEN <<"summary request">> ELSE <<>>)

\* the analysis of line 59, then the summary of line 64 that repeats it on
\* the same document_data
AnalysisThenSummary(analysis_calls, client, returned) ==
    analysis_calls \o SummaryCalls(analysis_calls, client, returned)

\* lines 59-64
CallsOfAnalysis(document_data, client, returned) ==
    AnalysisThenSummary(AnalysisCalls(document_data, client), client, returned)

\* what the backend may answer to one request of this service
Answers == IF openai_client THEN BackendTexts ELSE {<<>>}

\* lines 59-64 with an error payload treated as a failure of the request
AnalyzeOrFail(r) ==
    /\ pc[r] = "analyzing"
    /\ \E answer \in Answers, answer1 \in Answers, answer2 \in Answers :
          /\ llm_analysis' = [llm_analysis EXCEPT ![r] =
                 analyze_document_comprehensive(processing_result[r], openai_client,
                                                answer)]
          /\ summary' = [summary EXCEPT ![r] =
                 generate_document_summary(processing_result[r], openai_client,
                                           answer1, answer2)]
    /\ IF HasKey(llm_analysis'[r], "error")
       THEN /\ pc' = [pc EXCEPT ![r] = "failed"]
            /\ response' = [response EXCEPT ![r] =
                   [error |-> <<"Analysis failed", llm_analysis'[r].error>>,
                    success |-> FALSE]]
       ELSE /\ pc' = [pc EXCEPT ![r] = "storing"]
            /\ UNCHANGED response
    /\ llm_calls' = [llm_calls EXCEPT ![r] = CallsOfAnalysis(processing_result[r], openai_client, summary'[r])]
    /\ stages' = [stages EXCEPT ![r] = Append(@, "analyze")]
    /\ UNCHANGED << file_path, processing_result, document_id,
                    session, db, db_lock, analysisFrame >>

\* steps 2 and 3, lines 59-64: the category analysis, then the summary,
\* which runs the category analysis a second time
Analyze(r) ==
    /\ pc[r] = "analyzing"
    /\ \E answer \in Answers, answer1 \in Answers, answer2 \in Answers :
          /\ llm_analysis' = [llm_analysis EXCEPT ![r] =
                 analyze_document_comprehensive(processing_result[r], openai_client,
                                                answer)]
          /\ summary' = [summary EXCEPT ![r] =
                 generate_document_summary(processing_result[r], openai_client,
                                           answer1, answer2)]
    /\ pc' = [pc EXCEPT ![r] = "storing"]
    /\ llm_calls' = [llm_calls EXCEPT ![r] = CallsOfAnalysis(processing_result[r], openai_client, summary'[r])]
    /\ stages' = [stages EXCEPT ![r] = Append(@, "analyze")]
    /\ UNCHANGED << file_path, processing_result, document_id, response,
                    session, db, db_lock, analysisFrame >>

\* processing_duration of request r: the time measured at line 67
Elapsed(r) == <<"elapsed", r>>

\* the flush with the id read before the write lock is taken
StoreFlushUnlocked(r) ==
    /\ pc[r] = "storing"
    /\ db_lock' = r
    /\ session' = [session EXCEPT ![r] =
           AnalysisRows(Len(db.documents) + 1, processing_result[r], llm_analysis[r],
                        summary[r], user_id[r], Elapsed(r))]
    /\ pc' = [pc EXCEPT ![r] = "committing"]
    /\ UNCHANGED << file_path, pipelineLocals, response, db, stages, fixedVars >>

\* _store_analysis_results up to session.flush() (lines 97-143): the INSERT
\* of the flush takes the write lock and fixes the id of the new record
StoreFlush(r) ==
    /\ pc[r] = "storing"
    /\ db_lock = 0
    /\ db_lock' = r
    /\ session' = [session EXCEPT ![r] =
           AnalysisRows(Len(db.documents) + 1, processing_result[r], llm_analysis[r],
                        summary[r], user_id[r], Elapsed(r))]
    /\ pc' = [pc EXCEPT ![r] = "committing"]
    /\ UNCHANGED << file_path, pipelineLocals, response, db, stages, fixedVars >>

\* a commit of the record alone, its summary and tags left behind
StoreCommitRecordOnly(r) ==
    /\ pc[r] = "committing"
    /\ db' = [db EXCEPT !.documents = Append(@, session[r].document)]
    /\ db_lock' = 0
    /\ document_id' = [document_id EXCEPT ![r] = session[r].document.id]
    /\ session' = [session EXCEPT ![r] = NoDict]
    /\ pc' = [pc EXCEPT ![r] = "structuring"]
    /\ stages' = [stages EXCEPT ![r] = Append(@, "persist_record")]
    /\ UNCHANGED << file_path, processing_result, llm_analysis, summary, response,
                    fixedVars >>

\* session.commit() and return document_id (lines 145-146, 68)
StoreCommit(r) ==
    /\ pc[r] = "committing"
    /\ db' = [db EXCEPT !.documents = Append(@, session[r].document),
                        !.summaries = Append(@, session[r].summary),
                        !.tags = @ \o session[r].tags]
    /\ db_lock' = 0
    /\ document_id' = [document_id EXCEPT ![r] = session[r].document.id]
    /\ session' = [session EXCEPT ![r] = NoDict]
    /\ pc' = [pc EXCEPT ![r] = "structuring"]
    /\ stages' = [stages EXCEPT ![r] = Append(@, "persist_record")]
    /\ UNCHANGED << file_path, processing_result, llm_analysis, summary, response,
                    fixedVars >>

\* the exception of the session logged and not re-raised
StoreFailSwallowed(r) ==
    /\ pc[r] \in {"storing", "committing"}
    /\ session' = [session EXCEPT ![r] = NoDict]
    /\ db_lock' = IF db_lock = r THEN 0 ELSE db_lock
    /\ pc' = [pc EXCEPT ![r] = "structuring"]
    /\ stages' = [stages EXCEPT ![r] = Append(@, "persist_record")]
    /\ UNCHANGED << file_path, pipelineLocals, response, db, fixedVars >>

\* the exception of the session reported next to the in-memory results
StoreFailWithResults(r) ==
    /\ pc[r] \in {"storing", "committing"}
    /\ session' = [session EXCEPT ![r] = NoDict]
    /\ db_lock' = IF db_lock = r THEN 0 ELSE db_lock
    /\ response' = [response EXCEPT ![r] =
           [error |-> <<"Analysis failed", "database error">>, success |-> FALSE,
            processing_result |-> processing_result[r],
            llm_analysis |-> llm_analysis[r], summary |-> summary[r]]]
    /\ pc' = [pc EXCEPT ![r] = "failed"]
    /\ stages' = [stages EXCEPT ![r] = Append(@, "persist_record")]
    /\ UNCHANGED << file_path, pipelineLocals, db, fixedVars >>

\* the session raises (no connection, locked or full database, failed
\* INSERT): get_session rolls back, line 150 re-raises, line 88 catches
StoreFail(r) ==
    /\ pc[r] \in {"storing", "committing"}
    /\ session' = [session EXCEPT ![r] = NoDict]
    /\ db_lock' = IF db_lock = r THEN 0 ELSE db_lock
    /\ response' = [response EXCEPT ![r] =
           [error |-> <<"Analysis failed", "database error">>, success |-> FALSE]]
    /\ pc' = [pc EXCEPT ![r] = "failed"]
    /\ stages' = [stages EXCEPT ![r] = Append(@, "persist_record")]
    /\ UNCHANGED << file_path, pipelineLocals, db, fixedVars >>

\* the response of a request that completed (lines 75-86)
SuccessResponse(r) ==
    [ document_id |-> document_id[r],
      processing_result |-> processing_result[r],
      llm_analysis |-> llm_analysis[r],
      summary |-> summary[r],
      processing_duration |-> Elapsed(r),
      success |-> TRUE ]

\* step 5 with its commit (lines 73, 157-194), then the response (lines 75-86)
StructCommit(r) ==
    /\ pc[r] = "structuring"
    /\ db_lock = 0
    /\ db' = [db EXCEPT !.medications = @ \o MedicationRows(document_id[r], llm_analysis[r]),
                        !.lab_values = @ \o LabValueRows(document_id[r], llm_analysis[r])]
    /\ response' = [response EXCEPT ![r] = SuccessResponse(r)]
    /\ pc' = [pc EXCEPT ![r] = "done"]
    /\ stages' = [stages EXCEPT ![r] = @ \o <<"persist_structured", "respond">>]
    /\ UNCHANGED << file_path, pipelineLocals, session, db_lock, fixedVars >>

\* step 5 raising, with the exception re-raised to the handler of line 88
StructFailRaised(r) ==
    /\ pc[r] = "structuring"
    /\ response' = [response EXCEPT ![r] =
           [error |-> <<"Analysis failed", "database error">>, success |-> FALSE]]
    /\ pc' = [pc EXCEPT ![r] = "failed"]
    /\ stages' = [stages EXCEPT ![r] = Append(@, "persist_structured_failed")]
    /\ UNCHANGED << file_path, pipelineLocals, session, db, db_lock, fixedVars >>

\* step 5 raising inside _extract_and_store_structured_data: rolled back,
\* logged, not re-raised (lines 196-198), then the response (lines 75-86)
StructFail(r) ==
    /\ pc[r] = "structuring"
    /\ response' = [response EXCEPT ![r] = SuccessResponse(r)]
    /\ pc' = [pc EXCEPT ![r] = "done"]
    /\ stages' = [stages EXCEPT ![r] = @ \o <<"persist_structured_failed", "respond">>]
    /\ UNCHANGED << file_path, pipelineLocals, session, db, db_lock, fixedVars >>

Next ==
    \/ \E r \in Requests, f \in PipelineFiles : Validate(r, f)
    \/ \E r \in Requests : Process(r)
    \/ \E r \in Requests : Analyze(r)
    \/ \E r \in Requests : StoreFlush(r)
    \/ \E r \in Requests : StoreCommit(r)
    \/ \E r \in Requests : StoreFail(r)
    \/ \E r \in Requests : StructCommit(r)
    \/ \E r \in Requests : StructFail(r)

Spec == Init /\ [][Next]_vars

\* ------------------------------------------------- validate_file on its own
ValidateSuffixes ==
    { TXT, <<".", "T", "X", "T">>, <<".", "r", "t", "f">>,
      <<".", "p", "d", "f">>, <<".", "P", "d", "F">>,
      <<".", "d", "o", "c", "x">>, <<".", "j", "p", "g">>,
      <<".", "t", "i", "f", "f">>, DCM, <<".", "d", "i", "c", "o", "m">>,
      <<".", "x", "y", "z">>, <<".", "e", "x", "e">>, <<".", "t", "x">>, <<>> }

ValidateSizes ==
    { 0, 1, max_size - 1, max_size, max_size + 1, 60 * 1024 * 1024 }

\* the files validate_file is called on: present or not, every suffix, every size
ValidateFiles ==
    { [MakeFile("f", suffix, size, <<>>) EXCEPT !.exists = e] :
        suffix \in ValidateSuffixes, size \in ValidateSizes, e \in BOOLEAN }

InitValidate ==
    /\ env = [PDF_AVAILABLE |-> TRUE, ADVANCED_PROCESSING |-> FALSE, ocr_reader |-> FALSE]
    /\ openai_client = FALSE
    /\ PipelineIdle
    /\ vfile \in ValidateFiles
    /\ vresult = NoDict
    /\ input = NoDict
    /\ output = NoDict
    /\ calls = NoDict
    /\ screen = NoDict
    /\ notifier = NoDict

\* one call validate_file(vfile)
CallValidate ==
    /\ vresult = NoDict
    /\ vresult' = validate_file(vfile)
    /\ UNCHANGED << env, openai_client, pc, file_path, user_id, processing_result,
                    llm_analysis, summary, document_id, response, session, db,
                    db_lock, stages, vfile, input, output, calls, screen, notifier,
                    llm_calls >>

NextValidate == CallValidate

SpecValidate == InitValidate /\ [][NextValidate]_vars

\* --------------------------------------- single calls of service functions
\* the most words of a generated text
MaxWords == 3

\* every text of shorter extended by one word of vocabulary
Extend(shorter, vocabulary) ==
    { IF t = <<>> THEN w ELSE t \o <<" ">> \o w : t \in shorter, w \in vocabulary }

RECURSIVE TextsUpTo(_, _)
\* the texts of at most n words of vocabulary, separated by single spaces
TextsUpTo(vocabulary, n) ==
    IF n = 0 THEN {<<>>}
    ELSE {<<>>} \cup Extend(TextsUpTo(vocabulary, n - 1), vocabulary)

\* everything but the argument and the result of the single call
callFrame ==
    << env, openai_client, pc, file_path, user_id, processing_result, llm_analysis,
       summary, document_id, response, session, db, db_lock, stages, vfile, vresult,
       calls, screen, notifier, llm_calls >>

\* the service before a single call with an argument of inputs
InitCall(inputs) ==
    /\ env = [PDF_AVAILABLE |-> TRUE, ADVANCED_PROCESSING |-> FALSE, ocr_reader |-> FALSE]
    /\ PipelineIdle
    /\ vfile = NoFile
    /\ vresult = NoDict
    /\ input \in inputs
    /\ output = NoDict
    /\ calls = NoDict
    /\ screen = NoDict
    /\ notifier = NoDict

\* the call returned value
Returned(value) == [value |-> value]

\* words of the texts given to classify_document_type
ClassifyWords ==
    { <<"E", "C", "G">>,
      <<"e", "k", "g">>,
      <<"b", "l", "o", "o", "d">>,
      <<"C", "B", "C">>,
      <<"R", "x">>,
      <<"m", "r", "i">>,
      <<"n", "o", "r", "m", "a", "l">>,
      <<"p", "a", "t", "i", "e", "n", "t">>,
      <<"r", "e", "p", "o", "r", "t">>,
      <<"h", "e", "l", "l", "o">>,
      <<"D", "o", "c", "t", "o", "r">>, <<"F", "i", "n", "d", "i", "n", "g", "s">> }

\* type_scores before the test of line 350, by position in medical_patterns
type_scores(text) ==
    [i \in 1..Len(medical_patterns) |-> TypeScore(medical_patterns[i][2], Lower(text))]

InitClassify == openai_client = FALSE /\ InitCall(TextsUpTo(ClassifyWords, MaxWords))

\* one call classify_document_type(input)
CallClassify ==
    /\ output = NoDict
    /\ output' = [value |-> classify_document_type(input), scores |-> type_scores(input)]
    /\ UNCHANGED << callFrame, input >>

NextClassify == CallClassify

SpecClassify == InitClassify /\ [][NextClassify]_vars

\* the text lengths around the thresholds of calculate_confidence_score
ScoreLengths == {0, 1, 50, 51, 100, 101, 120}

\* a text of n characters
Filler(n) == [i \in 1..n |-> "a"]

\* the metadata of a result: without an OCR confidence, or with one of
\* 0.00, 0.01, ... 1.00
ScoreMetadata ==
    { [method |-> "direct_read"] }
    \cup { [method |-> "easyocr", confidence |-> c] : c \in 0..100 }

\* the results given to calculate_confidence_score
ScoreInputs ==
    { [text_content |-> Filler(n), document_type |-> t, metadata |-> md] :
        n \in ScoreLengths, t \in {"unknown", "ecg", "general_document"},
        md \in ScoreMetadata }

InitScore == openai_client = FALSE /\ InitCall(ScoreInputs)

\* one call calculate_confidence_score(input)
CallScore ==
    /\ output = NoDict
    /\ output' = Returned(calculate_confidence_score(input))
    /\ UNCHANGED << callFrame, input >>

NextScore == CallScore

SpecScore == InitScore /\ [][NextScore]_vars

\* the most names of a generated medication list
MaxMeds == 3

\* names given to analyze_medication_interactions
MedNames ==
    { <<"w", "a", "r", "f", "a", "r", "i", "n">>, <<"A", "s", "p", "i", "r", "i", "n">>, <<"a", "s", "p", "i", "r", "i", "n">>, <<"M", "e", "t", "f", "o", "r", "m", "i", "n">>,
      <<"a", "l", "c", "o", "h", "o", "l">>, <<"S", "T", "A", "T", "I", "N", "S">>, <<"g", "r", "a", "p", "e", "f", "r", "u", "i", "t">>, <<"i", "b", "u", "p", "r", "o", "f", "e", "n">> }

RECURSIVE ListsUpTo(_, _)
\* the lists of at most n elements of items
ListsUpTo(items, n) ==
    IF n = 0 THEN {<<>>}
    ELSE {<<>>} \cup { l \o <<x>> : l \in ListsUpTo(items, n - 1), x \in items }

\* the instants datetime.utcnow() may return
Instants == {"t1", "t2"}

InitInteractions ==
    /\ openai_client \in BOOLEAN
    /\ InitCall(ListsUpTo(MedNames, MaxMeds))

\* one call analyze_medication_interactions(input)
CallInteractions ==
    /\ output = NoDict
    /\ \E answer \in BackendTexts, now \in Instants :
         output' = Returned(analyze_medication_interactions(input, openai_client, answer, now))
    /\ UNCHANGED << callFrame, input >>

NextInteractions == CallInteractions

SpecInteractions == InitInteractions /\ [][NextInteractions]_vars

\* text_content of the documents given to analyze_document_comprehensive
AnalysisTexts ==
    { <<>>,
      <<"w", "a", "r", "f", "a", "r", "i", "n", " ", "5", " ", "m", "g", " ", "a", "s", "p", "i", "r", "i", "n", " ", "8", "1", " ", "m", "g">>,
      <<"r", "x", " ", "a", " ", "5", "m", "g">>,
      <<"h", "b", ":", " ", "1", "3", ".", "5", " ", "g">>,
      <<"h", "b", " ", ".">>,
      <<"h", "e", "a", "r", "t", " ", "r", "a", "t", "e", ":", " ", "7", "2">>,
      <<"a", " ", "n", "o", "t", "e">>,
      <<"f", "o", "l", "l", "o", "w", " ", "u", "p", ".", " ", "d", "i", "a", "g", "n", "o", "s", "i", "s", " ", "x">>,
      <<" ">> }

\* document_type of those documents
AnalysisTypes == {"ecg", "blood_test", "prescription", "radiology", "lab_report", "general_document", "unknown"}

InitAnalysis ==
    /\ openai_client \in BOOLEAN
    /\ InitCall({ [text_content |-> t, document_type |-> d] : t \in AnalysisTexts, d \in AnalysisTypes })

\* one call analyze_document_comprehensive(input); answer is what
\* _query_openai returns to the category request
CallAnalysis ==
    /\ output = NoDict
    /\ \E answer \in BackendTexts :
         output' = [value |-> analyze_document_comprehensive(input, openai_client, answer), answer |-> answer]
    /\ UNCHANGED << callFrame, input >>

NextAnalysis == CallAnalysis

SpecAnalysis == InitAnalysis /\ [][NextAnalysis]_vars

\* words of the texts given to the extractors
ExtractWords ==
    { <<"h", "b">>,
      <<":">>,
      <<".">>,
      <<"1", ".", "2", ".", "3">>,
      <<"1", "3", ".", "5">>,
      <<"5", " ", "m", "g">>,
      <<"H", "i", "g", "h">>,
      <<"d", "i", "a", "g", "n", "o", "s", "i", "s">> }

InitExtract == openai_client = FALSE /\ InitCall(TextsUpTo(ExtractWords, MaxWords))

\* one call of each extractor on input; _extract_lab_values may raise
CallExtract ==
    /\ output = NoDict
    /\ output' = [ecg_data |-> _extract_ecg_data(input),
                  lab_values |-> _extract_lab_values(input),
                  medications |-> _extract_medications_from_text(input),
                  abnormal_values |-> _identify_abnormal_values(input),
                  key_points |-> _extract_key_points(input),
                  action_items |-> _identify_action_items(input),
                  medical_terms |-> _explain_medical_terms(input)]
    /\ UNCHANGED << callFrame, input >>

NextExtract == CallExtract

SpecExtract == InitExtract /\ [][NextExtract]_vars

\* ------------------------------- one call of process_document
\* texts an extractor yields
ProcessTexts == { <<>>, <<"r", "x", " ", "a", " ", "5", "m", "g">> }

\* easyocr regions of an image
ProcessRegions == { <<>>, << << <<"h", "b">>, 90 >> >> }

\* the files process_document is called on: every suffix family, present or
\* not, readable or not, with each outcome of the chart detector
ProcessFiles ==
    { [MakeFile("f", suffix, 4, text) EXCEPT !.exists = e, !.corrupt = c, !.chart = ch, !.tess_text = text, !.regions = regions] :
        suffix \in ValidateSuffixes, text \in ProcessTexts, e \in BOOLEAN, c \in BOOLEAN,
        ch \in ChartOutcomes, regions \in ProcessRegions }

InitProcess ==
    /\ env \in Envs
    /\ openai_client = FALSE
    /\ PipelineIdle
    /\ vfile \in ProcessFiles
    /\ vresult = NoDict
    /\ input = NoDict
    /\ output = NoDict
    /\ calls = NoDict
    /\ screen = NoDict
    /\ notifier = NoDict

\* one call process_document(vfile)
CallProcess ==
    /\ vresult = NoDict
    /\ vresult' = process_document(vfile, env)
    /\ UNCHANGED << env, openai_client, pc, file_path, user_id, processing_result,
                    llm_analysis, summary, document_id, response, session, db,
                    db_lock, stages, vfile, input, output, calls, screen, notifier,
                    llm_calls >>

NextProcess == CallProcess

SpecProcess == InitProcess /\ [][NextProcess]_vars

\* ------------------------------- DocumentService: failures of the storing steps
\* _add_system_tags raises (line 143): it has no handler of its own, the
\* session is rolled back, line 150 re-raises and line 88 answers
AddSystemTagsFail(r) ==
    /\ pc[r] = "committing"
    /\ session' = [session EXCEPT ![r] = NoDict]
    /\ db_lock' = IF db_lock = r THEN 0 ELSE db_lock
    /\ response' = [response EXCEPT ![r] =
           [error |-> <<"Analysis failed", "tag error">>, success |-> FALSE]]
    /\ pc' = [pc EXCEPT ![r] = "failed"]
    /\ stages' = [stages EXCEPT ![r] = Append(@, "tag_mapping_failed")]
    /\ UNCHANGED << file_path, pipelineLocals, db, fixedVars >>

\* ------------------------------- DocumentAnalysisScreen
\* the most analyses started on the screen
MaxAnalyses == 2

\* the files offered by the file manager
ScreenFiles ==
    { MakeFile("scan.dcm", DCM, 4, <<>>),
      MakeFile("note.txt", TXT, 2, <<"o", "k">>),
      MakeFile("huge.txt", TXT, 60 * 1024 * 1024, <<>>) }

\* __init__ (lines 31-41): no file selected, no dialog, nothing scheduled.
\* dialogs[n] is the MDDialog opened by the n-th analysis, threads[n] its
\* thread, clock the callbacks handed to Clock.schedule_once, in order
NewScreen ==
    [ current_file_path |-> NoFile, progress_dialog |-> 0, dialogs |-> <<>>,
      threads |-> <<>>, clock |-> <<>>, results_content |-> <<>>, running |-> TRUE ]

InitScreen ==
    /\ env = [PDF_AVAILABLE |-> TRUE, ADVANCED_PROCESSING |-> FALSE, ocr_reader |-> FALSE]
    /\ openai_client \in BOOLEAN
    /\ PipelineIdle
    /\ vfile = NoFile
    /\ vresult = NoDict
    /\ input = NoDict
    /\ output = NoDict
    /\ calls = NoDict
    /\ screen = NewScreen
    /\ notifier = NoDict

screenFrame ==
    << env, openai_client, pc, file_path, user_id, processing_result, llm_analysis,
       summary, document_id, response, session, db, db_lock, stages, vfile, vresult,
       input, output, calls, notifier, llm_calls >>

\* select_file_path(path) (lines 259-276); the open progress dialog is modal
select_file_path(f) ==
    /\ screen.running
    /\ screen.progress_dialog = 0
    /\ Len(screen.dialogs) < MaxAnalyses
    /\ screen' = [screen EXCEPT !.current_file_path = IF validate_file(f).is_valid THEN f ELSE NoFile]
    /\ UNCHANGED screenFrame

\* start_analysis (lines 283-296): without a file a toast only; else the
\* progress dialog is opened and the thread started
start_analysis ==
    /\ screen.running
    /\ screen.progress_dialog = 0
    /\ Len(screen.dialogs) < MaxAnalyses
    /\ screen' = IF screen.current_file_path = NoFile THEN screen
                 ELSE [screen EXCEPT !.dialogs = Append(@, "open"),
                                     !.progress_dialog = Len(screen.dialogs) + 1,
                                     !.threads = Append(@, [pc |-> "started"])]
    /\ UNCHANGED screenFrame

\* the thread after process_document returned document_data or raised
AfterProcess(processed) ==
    IF processed.raised THEN [pc |-> "except", e |-> processed.exc]
    ELSE IF processed.result.error # None THEN [pc |-> "schedule", document_data |-> processed.result]
    ELSE [pc |-> "analyze", document_data |-> processed.result]

\* step 1 on the thread (line 331): the file is read when the thread runs
BackgroundProcess(n) ==
    /\ screen.running
    /\ n \in 1..Len(screen.threads)
    /\ screen.threads[n].pc = "started"
    /\ \E present \in BOOLEAN :
         screen' = [screen EXCEPT !.threads[n] =
                       AfterProcess(process_document([screen.current_file_path EXCEPT !.exists = present], env))]
    /\ UNCHANGED screenFrame

\* the thread after document_data['llm_analysis'] = llm_analysis
AfterAnalyze(document_data, client) ==
    [pc |-> "schedule",
     document_data |-> [llm_analysis |-> analyze_document_comprehensive(document_data, client, IF client THEN <<"o", "k">> ELSE <<>>)] @@ document_data]

\* step 2 on the thread (lines 334-336)
BackgroundAnalyze(n) ==
    /\ screen.running
    /\ n \in 1..Len(screen.threads)
    /\ screen.threads[n].pc = "analyze"
    /\ screen' = [screen EXCEPT !.threads[n] = AfterAnalyze(screen.threads[n].document_data, openai_client)]
    /\ UNCHANGED screenFrame

\* step 3 on the thread (lines 339-342): the callback is handed to the clock
BackgroundSchedule(n) ==
    /\ screen.running
    /\ n \in 1..Len(screen.threads)
    /\ screen.threads[n].pc = "schedule"
    /\ screen' = [screen EXCEPT !.clock = Append(@, [callback |-> "display_analysis_results", thread |-> n, results |-> screen.threads[n].document_data]),
                                !.threads[n] = [pc |-> "finished"]]
    /\ UNCHANGED screenFrame

\* the handler (lines 344-349): the lambda refers to the handler's name e
BackgroundExcept(n) ==
    /\ screen.running
    /\ n \in 1..Len(screen.threads)
    /\ screen.threads[n].pc = "except"
    /\ screen' = [screen EXCEPT !.clock = Append(@, [callback |-> "handle_analysis_error", thread |-> n]),
                                !.threads[n] = [pc |-> "leave_except", e |-> @.e]]
    /\ UNCHANGED screenFrame

\* the end of the except clause unbinds e
BackgroundLeaveExcept(n) ==
    /\ screen.running
    /\ n \in 1..Len(screen.threads)
    /\ screen.threads[n].pc = "leave_except"
    /\ screen' = [screen EXCEPT !.threads[n] = [pc |-> "finished"]]
    /\ UNCHANGED screenFrame

\* lines 353-356 and 518-520: the dialog in progress_dialog is dismissed
Dismissed(s) ==
    IF s.progress_dialog = 0 THEN s
    ELSE [s EXCEPT !.dialogs[s.progress_dialog] = "dismissed", !.progress_dialog = 0]

\* display_analysis_results(results) (lines 351-384)
display_analysis_results(s, results) ==
    [Dismissed(s) EXCEPT !.results_content =
        IF results.error # None THEN <<"Analysis Error", results.error>>
        ELSE <<results.document_type>>]

\* handle_analysis_error(error_message) (lines 516-531)
handle_analysis_error(s, error_message) ==
    [Dismissed(s) EXCEPT !.results_content = <<"Analysis Error", error_message>>]

\* the interactive thread runs the callback scheduled first.  The lambda of
\* line 347 evaluates str(e) when it runs: once the thread has left the
\* except clause the name is unbound, the lambda raises NameError and the
\* event loop stops with it
ClockRun(s, scheduled) ==
    IF scheduled.callback = "display_analysis_results"
    THEN display_analysis_results(s, scheduled.results)
    ELSE IF s.threads[scheduled.thread].pc = "leave_except"
    THEN handle_analysis_error(s, s.threads[scheduled.thread].e)
    ELSE [s EXCEPT !.running = FALSE]

ClockTick ==
    /\ screen.running
    /\ screen.clock # <<>>
    /\ screen' = ClockRun([screen EXCEPT !.clock = Tail(@)], Head(screen.clock))
    /\ UNCHANGED screenFrame

NextScreen ==
    \/ \E f \in ScreenFiles : select_file_path(f)
    \/ start_analysis
    \/ \E n \in 1..MaxAnalyses : BackgroundProcess(n)
    \/ \E n \in 1..MaxAnalyses : BackgroundAnalyze(n)
    \/ \E n \in 1..MaxAnalyses : BackgroundSchedule(n)
    \/ \E n \in 1..MaxAnalyses : BackgroundExcept(n)
    \/ \E n \in 1..MaxAnalyses : BackgroundLeaveExcept(n)
    \/ ClockTick

\* a started thread runs on, and the event loop runs what is scheduled
SpecScreen ==
    /\ InitScreen
    /\ [][NextScreen]_vars
    /\ \A n \in 1..MaxAnalyses : WF_vars(BackgroundProcess(n))
    /\ \A n \in 1..MaxAnalyses : WF_vars(BackgroundAnalyze(n))
    /\ \A n \in 1..MaxAnalyses : WF_vars(BackgroundSchedule(n))
    /\ \A n \in 1..MaxAnalyses : WF_vars(BackgroundExcept(n))
    /\ \A n \in 1..MaxAnalyses : WF_vars(BackgroundLeaveExcept(n))
    /\ WF_vars(ClockTick)

\* ------------------------------- NotificationService
\* the most threads start_medication_scheduler starts
MaxStarts == 3

\* __init__ (lines 20-24); threads[t] is where the t-th scheduler thread
\* stands in _run_scheduler, jobs the jobs of the schedule module, which all
\* threads share, ran the jobs of the last run_pending
NewNotifier ==
    [ running |-> FALSE, scheduler_thread |-> 0, threads |-> <<>>, jobs |-> <<>>, ran |-> <<>> ]

InitNotifier ==
    /\ env = [PDF_AVAILABLE |-> TRUE, ADVANCED_PROCESSING |-> FALSE, ocr_reader |-> FALSE]
    /\ openai_client = FALSE
    /\ PipelineIdle
    /\ vfile = NoFile
    /\ vresult = NoDict
    /\ input = NoDict
    /\ output = NoDict
    /\ calls = NoDict
    /\ screen = NoDict
    /\ notifier = NewNotifier

notifierFrame ==
    << env, openai_client, pc, file_path, user_id, processing_result, llm_analysis,
       summary, document_id, response, session, db, db_lock, stages, vfile, vresult,
       input, output, calls, screen, llm_calls >>

\* start_medication_scheduler (lines 30-36)
start_medication_scheduler ==
    /\ Len(notifier.threads) < MaxStarts
    /\ notifier' = IF notifier.running THEN notifier
                   ELSE [notifier EXCEPT !.running = TRUE,
                                         !.threads = Append(@, "started"),
                                         !.scheduler_thread = Len(notifier.threads) + 1]
    /\ UNCHANGED notifierFrame

\* stop_scheduler (lines 38-43): the flag is cleared; join(timeout=1) returns
\* after a second whether or not the thread, which sleeps 30, has ended
stop_scheduler ==
    /\ notifier' = [notifier EXCEPT !.running = FALSE]
    /\ UNCHANGED notifierFrame

\* _run_scheduler, lines 47-49: the two checks are registered
SchedulerRegister(t) ==
    /\ t \in 1..Len(notifier.threads)
    /\ notifier.threads[t] = "started"
    /\ notifier' = [notifier EXCEPT !.jobs = @ \o <<"_check_medication_reminders", "_check_appointment_reminders">>,
                                    !.threads[t] = "while"]
    /\ UNCHANGED notifierFrame

\* line 51: while self.running
SchedulerTest(t) ==
    /\ t \in 1..Len(notifier.threads)
    /\ notifier.threads[t] = "while"
    /\ notifier' = [notifier EXCEPT !.threads[t] = IF notifier.running THEN "run_pending" ELSE "ended"]
    /\ UNCHANGED notifierFrame

\* lines 52-54: run_pending runs every registered job that is due, then the
\* thread sleeps
SchedulerRunPending(t) ==
    /\ t \in 1..Len(notifier.threads)
    /\ notifier.threads[t] = "run_pending"
    /\ notifier' = [notifier EXCEPT !.ran = notifier.jobs, !.threads[t] = "while"]
    /\ UNCHANGED notifierFrame

NextNotifier ==
    \/ start_medication_scheduler
    \/ stop_scheduler
    \/ \E t \in 1..MaxStarts : SchedulerRegister(t)
    \/ \E t \in 1..MaxStarts : SchedulerTest(t)
    \/ \E t \in 1..MaxStarts : SchedulerRunPending(t)

SpecNotifier == InitNotifier /\ [][NextNotifier]_vars

\* ------------------------------- DocumentService: read and tag operations
\* the number of concurrent callers of add_user_tag
NumCallers == 2
Callers == 1..NumCallers

\* what analyze_document_complete hands to _store_analysis_results for the
\* result p of process_document, with or without a client
AnalysedResult(p, client) ==
    [ processing_result |-> p,
      llm_analysis |-> analyze_document_comprehensive(p, client, IF client THEN <<"o", "k">> ELSE <<>>),
      summary |-> generate_document_summary(p, client, IF client THEN <<"o", "k">> ELSE <<>>, IF client THEN <<"o", "k">> ELSE <<>>) ]

Analysed(file, client) ==
    AnalysedResult(process_document(file, [PDF_AVAILABLE |-> TRUE, ADVANCED_PROCESSING |-> FALSE, ocr_reader |-> FALSE]).result, client)

\* the documents of the requests
StoredFiles ==
    << MakeFile("note.txt", TXT, 22, <<"f", "o", "l", "l", "o", "w", " ", "u", "p", ".", " ", "d", "i", "a", "g", "n", "o", "s", "i", "s", " ", "x">>),
       MakeFile("blood.txt", TXT, 16, <<"b", "l", "o", "o", "d", " ", "h", "b", ":", " ", "1", "3", ".", "5", " ", "g">>),
       MakeFile("rx.txt", TXT, 8, <<"r", "x", " ", "a", " ", "5", "m", "g">>),
       MakeFile("ecg.txt", TXT, 18, <<"e", "c", "g", " ", "h", "e", "a", "r", "t", " ", "r", "a", "t", "e", ":", " ", "7", "2">>) >>


\* tag_name arguments of add_user_tag
TagNames == { <<"M", "e", "d", "i", "c", "a", "l", " ">>, <<" ", "M", "i", "n", "e">> }

\* the user whose session makes the calls of add_user_tag
CallingUser == CHOOSE u \in Users : \A v \in Users : u <= v

IdleCall == [pc |-> "idle"]

InitTags ==
    /\ env = [PDF_AVAILABLE |-> TRUE, ADVANCED_PROCESSING |-> FALSE, ocr_reader |-> FALSE]
    /\ openai_client \in BOOLEAN
    /\ pc = [r \in Requests |-> "storing"]
    /\ file_path = [r \in Requests |-> StoredFiles[r]]
    /\ user_id = [r \in Requests |-> UserOf(r)]
    /\ processing_result = [r \in Requests |-> Analysed(StoredFiles[r], openai_client).processing_result]
    /\ llm_analysis = [r \in Requests |-> Analysed(StoredFiles[r], openai_client).llm_analysis]
    /\ summary = [r \in Requests |-> Analysed(StoredFiles[r], openai_client).summary]
    /\ document_id = [r \in Requests |-> 0]
    /\ response = [r \in Requests |-> NoDict]
    /\ session = [r \in Requests |-> NoDict]
    /\ db = EmptyDb
    /\ db_lock = 0
    /\ stages = [r \in Requests |-> <<"validate", "extract", "analyze">>]
    /\ llm_calls = [r \in Requests |-> CallsOfAnalysis(Analysed(StoredFiles[r], openai_client).processing_result, openai_client, Analysed(StoredFiles[r], openai_client).summary)]
    /\ vfile = NoFile
    /\ vresult = NoDict
    /\ input = NoDict
    /\ output = NoDict
    /\ calls = [c \in Callers |-> IdleCall]
    /\ screen = NoDict
    /\ notifier = NoDict

\* everything the read and tag operations leave alone
tagFrame ==
    << env, openai_client, pc, file_path, user_id, processing_result, llm_analysis,
       summary, document_id, response, session, db_lock, stages, vfile, vresult,
       input, output, screen, notifier, llm_calls >>

\* the rows of a table that carry document_id id, in table order
RowsOf(table, id) ==
    LET Mine(row) == row.document_id = id
    IN  SelectSeq(table, Mine)

\* .first() of the rows of table with document_id = doc_id, None without one
FirstRow(table, doc_id) ==
    IF \E k \in 1..Len(table) : table[k].document_id = doc_id
    THEN table[CHOOSE k \in 1..Len(table) : table[k].document_id = doc_id /\ \A j \in 1..(k - 1) : table[j].document_id # doc_id]
    ELSE NoDict

\* json.loads(column) if the row exists and the column is not empty, else default
LoadedColumn(row, column, default) ==
    IF row # NoDict /\ row[column] # <<>> THEN json_loads(row[column]) ELSE default

MedicationDetails(rows) ==
    [k \in 1..Len(rows) |->
        [name |-> rows[k].medication_name, dosage |-> rows[k].dosage,
         frequency |-> rows[k].frequency, confidence |-> rows[k].extracted_confidence]]

LabValueDetails(rows) ==
    [k \in 1..Len(rows) |->
        [test |-> rows[k].test_name, value |-> rows[k].value, unit |-> rows[k].unit,
         is_abnormal |-> rows[k].is_abnormal, confidence |-> rows[k].extracted_confidence]]

\* the dictionary compiled for the record doc (lines 296-336)
DetailsOf(doc, summary_row, tags) ==
    [ found |-> TRUE,
      document |-> [ id |-> doc.id, file_name |-> doc.file_name, file_path |-> doc.file_path,
                     document_type |-> doc.document_type,
                     confidence_score |-> doc.confidence_score,
                     text_content |-> doc.text_content,
                     processing_duration |-> doc.processing_duration ],
      analysis |-> LoadedColumn(doc, "llm_analysis", NoDict),
      summary |-> [ short |-> IF summary_row # NoDict THEN summary_row.short_summary ELSE NoDict,
                    detailed |-> IF summary_row # NoDict THEN summary_row.detailed_summary ELSE EmptyText,
                    key_points |-> LoadedColumn(summary_row, "key_points", <<>>),
                    action_items |-> LoadedColumn(summary_row, "action_items", <<>>) ],
      extracted_data |-> [ medications |-> MedicationDetails(RowsOf(db.medications, doc.id)),
                           lab_values |-> LabValueDetails(RowsOf(db.lab_values, doc.id)) ],
      tags |-> [k \in 1..Len(tags) |-> tags[k].tag_name] ]

\* the mutant leaves out the filter on user_id
OwnedDocument_any_user(doc_id, u) ==
    /\ doc_id \in 1..Len(db.documents)
    /\ db.documents[doc_id].user_id \in Users

\* the query of lines 265-268 and 346-349 finds a record: id and user_id match
OwnedDocument(doc_id, u) ==
    /\ doc_id \in 1..Len(db.documents)
    /\ db.documents[doc_id].user_id = u

\* the query of lines 355-358 finds a tag of the document with this name
ExistingTag(doc_id, tag_name) ==
    \E k \in 1..Len(db.tags) : db.tags[k].document_id = doc_id /\ db.tags[k].tag_name = tag_name

\* the mutant reads the key points from the action_items column
get_document_details_other_column(doc_id, u) ==
    IF ~OwnedDocument(doc_id, u) THEN [found |-> FALSE]
    ELSE [DetailsOf(db.documents[doc_id], FirstRow(db.summaries, doc_id), RowsOf(db.tags, doc_id))
             EXCEPT !.summary.key_points = LoadedColumn(FirstRow(db.summaries, doc_id), "action_items", <<>>)]

\* get_document_details(document_id, user_id) in the database as it is: a
\* record id is its position in document_analyses; None is [found |-> FALSE]
get_document_details(doc_id, u) ==
    IF ~OwnedDocument(doc_id, u) THEN [found |-> FALSE]
    ELSE DetailsOf(db.documents[doc_id], FirstRow(db.summaries, doc_id), RowsOf(db.tags, doc_id))

RECURSIVE RecordsOf(_, _)
\* the ids of the records of user u among the first n, newest first
\* (order_by created_at desc)
RecordsOf(u, n) ==
    IF n = 0 THEN <<>>
    ELSE (IF db.documents[n].user_id = u THEN <<n>> ELSE <<>>) \o RecordsOf(u, n - 1)

\* doc_data of lines 244-254
ListedDocument(doc, summary_row, tags) ==
    [ id |-> doc.id, file_name |-> doc.file_name, document_type |-> doc.document_type,
      confidence_score |-> doc.confidence_score,
      short_summary |-> IF summary_row # NoDict THEN summary_row.short_summary ELSE NoDict,
      tags |-> [k \in 1..Len(tags) |-> tags[k].tag_name],
      is_critical |-> doc.is_critical, is_favorite |-> doc.is_favorite ]

ListedDocuments(ids) ==
    [k \in 1..Len(ids) |-> ListedDocument(db.documents[ids[k]], FirstRow(db.summaries, ids[k]), RowsOf(db.tags, ids[k]))]

\* get_user_documents(user_id)
get_user_documents(u) == ListedDocuments(RecordsOf(u, Len(db.documents)))

\* query.lower().split()
SearchTerms(query) ==
    LET NonEmpty(term) == term # <<>>
    IN  SelectSeq(Split(Lower(query), " "), NonEmpty)

\* the ilike filters of lines 391-396 for one record: file names and the
\* serialized analysis are not text in the model, elsewhere is the set of
\* records in which one of these columns contains the terms
MatchesTerms(doc, terms, elsewhere) ==
    \A k \in 1..Len(terms) :
        Contains(Lower(doc.text_content), terms[k]) \/ doc.id \in elsewhere

\* _calculate_relevance_score(document, query) in tenths; the file name
\* counts for the records of elsewhere, a document type contains no query
_calculate_relevance_score(doc, query, elsewhere) ==
    (IF doc.id \in elsewhere THEN 5 ELSE 0)
      + (IF doc.text_content # <<>> /\ Contains(Lower(doc.text_content), Lower(query)) THEN 2 ELSE 0)

\* doc_data of lines 406-414
FoundDocument(doc, summary_row, query, elsewhere) ==
    [ id |-> doc.id, file_name |-> doc.file_name, document_type |-> doc.document_type,
      confidence_score |-> doc.confidence_score,
      short_summary |-> IF summary_row # NoDict THEN summary_row.short_summary ELSE NoDict,
      relevance_score |-> _calculate_relevance_score(doc, query, elsewhere) ]

RECURSIVE SortedByRelevance(_)
\* result.sort(key=relevance_score, reverse=True): stable
SortedByRelevance(rows) ==
    IF rows = <<>> THEN <<>>
    ELSE LET best == CHOOSE k \in 1..Len(rows) :
                        /\ \A j \in 1..Len(rows) : rows[j].relevance_score <= rows[k].relevance_score
                        /\ \A j \in 1..(k - 1) : rows[j].relevance_score < rows[k].relevance_score
         IN  <<rows[best]>> \o SortedByRelevance(SubSeq(rows, 1, best - 1) \o SubSeq(rows, best + 1, Len(rows)))

FoundDocuments(ids, query, elsewhere) ==
    [k \in 1..Len(ids) |-> FoundDocument(db.documents[ids[k]], FirstRow(db.summaries, ids[k]), query, elsewhere)]

\* the ids the query of lines 381-398 selects among ids
Selected(ids, terms, document_type, elsewhere) ==
    LET Hit(id) == /\ (document_type # None => db.documents[id].document_type = document_type)
                   /\ MatchesTerms(db.documents[id], terms, elsewhere)
    IN  SelectSeq(ids, Hit)

\* search_documents(user_id, query, document_type)
search_documents(u, query, document_type, elsewhere) ==
    SortedByRelevance(FoundDocuments(Selected(RecordsOf(u, Len(db.documents)), SearchTerms(query), document_type, elsewhere), query, elsewhere))

\* the queries searched for
SearchQueries == { <<"b", "l", "o", "o", "d">>, <<"O", " ", "D">> }

\* add_user_tag up to session.add(new_tag) (lines 346-369): the two queries
TagQuery(c, doc_id, u, tag_name) ==
    /\ calls[c].pc = "idle"
    /\ calls' = [calls EXCEPT ![c] =
          IF ~OwnedDocument(doc_id, u)
          THEN [pc |-> "returned", result |-> FALSE]
          ELSE IF ExistingTag(doc_id, Strip(Lower(tag_name)))
          THEN [pc |-> "returned", result |-> TRUE]
          ELSE [pc |-> "adding", document_id |-> doc_id, user_id |-> u,
                new_tag |-> [document_id |-> doc_id, tag_name |-> Strip(Lower(tag_name)), tag_type |-> "user"]]]
    /\ UNCHANGED << tagFrame, db >>

\* session.commit() and return True (lines 370-371): the INSERT needs the
\* write lock; nothing makes the check and the insert one step
TagCommit(c) ==
    /\ calls[c].pc = "adding"
    /\ db_lock = 0
    /\ db' = [db EXCEPT !.tags = Append(@, calls[c].new_tag)]
    /\ calls' = [calls EXCEPT ![c] = [pc |-> "returned", result |-> TRUE]]
    /\ UNCHANGED tagFrame

\* the commit raises: logged, return False (lines 374-376)
TagFail(c) ==
    /\ calls[c].pc = "adding"
    /\ calls' = [calls EXCEPT ![c] = [pc |-> "returned", result |-> FALSE]]
    /\ UNCHANGED << tagFrame, db >>

NextTags ==
    \/ \E r \in Requests : StoreFlush(r)
    \/ \E r \in Requests : StoreCommit(r)
    \/ \E r \in Requests : StructCommit(r)
    \/ \E c \in Callers, d \in Requests, t \in TagNames : TagQuery(c, d, CallingUser, t)
    \/ \E c \in Callers : TagCommit(c)
    \/ \E c \in Callers : TagFail(c)

SpecTags == InitTags /\ [][NextTags]_vars

\* the storing steps of the analysed requests, each of which may raise
NextStore ==
    \/ \E r \in Requests : StoreFlush(r)
    \/ \E r \in Requests : StoreCommit(r)
    \/ \E r \in Requests : StoreFail(r)
    \/ \E r \in Requests : AddSystemTagsFail(r)
    \/ \E r \in Requests : StructCommit(r)
    \/ \E r \in Requests : StructFail(r)

SpecStore == InitTags /\ [][NextStore]_vars

\* -------------------------------------------------------------- properties
\* the stages of one request, in the order of analyze_document_complete
StageOrder ==
    << "validate", "extract", "analyze", "persist_record", "persist_structured",
       "respond" >>

IsPrefix(a, b) == Len(a) <= Len(b) /\ \A i \in 1..Len(a) : a[i] = b[i]

\* a stage as StageOrder names it, whether it ended well or not
StageName(s) == IF s = "persist_structured_failed" THEN "persist_structured" ELSE s

\* the rows request r adds to its first session, for the id it was given
OwnRows(r) ==
    AnalysisRows(document_id[r], processing_result[r], llm_analysis[r], summary[r],
                 user_id[r], Elapsed(r))

\* the request's write of the record raised
StoreFailed(r) ==
    /\ pc[r] = "failed"
    /\ stages[r] = <<"validate", "extract", "analyze", "persist_record">>

\* the request's write of the extracted rows raised
StructuredFailed(r) ==
    /\ Len(stages[r]) >= 5
    /\ stages[r][5] = "persist_structured_failed"

\* no record of the database comes from request r
NotInDatabase(r) ==
    \A i \in 1..Len(db.documents) : db.documents[i].processing_duration # Elapsed(r)

\* request r has no row in the database and none pending in a session
NothingWritten(r) ==
    /\ document_id[r] = 0
    /\ session[r] = NoDict
    /\ NotInDatabase(r)

\* C1: the stages of a request run in the order validate, extract, analyze,
\* persist record, persist structured data, respond, each only after all the
\* earlier ones; a response with success = true exists only once the record
\* of the request is in the database; and a failed request runs no further
\* stage and keeps its response.
C1_StagesInOrder ==
    /\ [](\A r \in Requests :
            /\ IsPrefix([i \in 1..Len(stages[r]) |-> StageName(stages[r][i])],
                        StageOrder)
            /\ (HasKey(response[r], "success") /\ response[r].success)
                  => /\ IsPrefix(<<"validate", "extract", "analyze", "persist_record">>,
                                 stages[r])
                     /\ response[r].document_id \in 1..Len(db.documents)
                     /\ db.documents[response[r].document_id].file_name
                           = file_path[r].name)
    /\ [][\A r \in Requests :
            pc[r] = "failed"
               => /\ pc'[r] = "failed"
                  /\ stages'[r] = stages[r]
                  /\ response'[r] = response[r]]_vars

C1_Witness ==
    \E r1, r2 \in Requests :
        /\ pc[r1] = "done"
        /\ stages[r1] = StageOrder
        /\ response[r1].success
        /\ pc[r2] = "failed"
        /\ stages[r2] = <<"validate", "extract">>

\* C2: a request whose file validate_file rejects, or whose process_document
\* result has its error set, ends with an error response; the analysis never
\* runs for it and no row of it reaches the session or the database; after a
\* validation failure process_document has not run either.
C2_RejectedNothingRuns ==
    \A r \in Requests :
        pc[r] # "idle" =>
            /\ ~validate_file(file_path[r]).is_valid
                  => /\ pc[r] = "failed"
                     /\ HasKey(response[r], "error")
                     /\ stages[r] = <<"validate">>
                     /\ processing_result[r] = NoDict
                     /\ llm_analysis[r] = NoDict
                     /\ summary[r] = NoDict
                     /\ NothingWritten(r)
            /\ (processing_result[r] # NoDict /\ processing_result[r].error # None)
                  => /\ pc[r] = "failed"
                     /\ HasKey(response[r], "error")
                     /\ stages[r] = <<"validate", "extract">>
                     /\ llm_analysis[r] = NoDict
                     /\ summary[r] = NoDict
                     /\ NothingWritten(r)

C2_Witness ==
    \E r1, r2 \in Requests :
        /\ pc[r1] = "failed"
        /\ ~validate_file(file_path[r1]).is_valid
        /\ pc[r2] = "failed"
        /\ processing_result[r2] # NoDict
        /\ processing_result[r2].error # None
        /\ Len(db.documents) = 0

\* C3: every response carries a success field: true with document_id,
\* processing_result, llm_analysis, summary and processing_duration when the
\* request completed, false with error when it failed at any stage.
C3_EveryResponseHasSuccess ==
    \A r \in Requests :
        /\ pc[r] = "done"
              => /\ { "success", "document_id", "processing_result", "llm_analysis",
                      "summary", "processing_duration" } \subseteq DOMAIN response[r]
                 /\ response[r].success = TRUE
        /\ pc[r] = "failed"
              => /\ {"success", "error"} \subseteq DOMAIN response[r]
                 /\ response[r].success = FALSE

C5_StructuredFailureTolerated ==
    \A r \in Requests :
        StructuredFailed(r)
           => /\ pc[r] = "done"
              /\ response[r].success = TRUE
              /\ response[r].document_id = document_id[r]
              /\ document_id[r] \in 1..Len(db.documents)
              /\ db.documents[document_id[r]] = OwnRows(r).document
              /\ db.summaries[document_id[r]] = OwnRows(r).summary
              /\ RowsOf(db.tags, document_id[r]) = OwnRows(r).tags

C5_Witness ==
    \E r \in Requests :
        /\ StructuredFailed(r)
        /\ Len(MedicationRows(document_id[r], llm_analysis[r])) > 0
        /\ Len(RowsOf(db.medications, document_id[r])) = 0
        /\ response[r].success

\* the analysis of request r came back as an error payload or without text
SparseAnalysis(r) ==
    /\ "analyze" \in {stages[r][i] : i \in 1..Len(stages[r])}
    /\ \/ HasKey(llm_analysis[r], "error")
       \/ Get(llm_analysis[r], "analysis", EmptyText).len = 0

\* C6: an error payload or an empty analysis never fails the request: it goes
\* on to the write of the record (only that write can still fail it), and
\* when it completes the record holds that analysis and the response is
\* success = true with that analysis.
C6_AnalysisFailureTolerated ==
    \A r \in Requests :
        SparseAnalysis(r)
           => /\ pc[r] \in {"storing", "committing", "structuring", "done", "failed"}
              /\ pc[r] = "failed" => StoreFailed(r)
              /\ pc[r] \in {"structuring", "done"}
                    => /\ document_id[r] \in 1..Len(db.documents)
                       /\ db.documents[document_id[r]].llm_analysis
                             = json_dumps(llm_analysis[r], Payload)
              /\ pc[r] = "done"
                    => /\ response[r].success = TRUE
                       /\ response[r].llm_analysis = llm_analysis[r]

C6_Witness ==
    \E r1, r2 \in Requests :
        /\ pc[r1] = "done"
        /\ HasKey(llm_analysis[r1], "error")
        /\ response[r1].success
        /\ pc[r2] = "done"
        /\ ~HasKey(llm_analysis[r2], "error")
        /\ Get(llm_analysis[r2], "analysis", EmptyText).len = 0
        /\ response[r2].success

\* the extracted rows in the database for the record of request r
StoredMedications(r) == RowsOf(db.medications, document_id[r])
StoredLabValues(r) == RowsOf(db.lab_values, document_id[r])

\* C7 as claimed: a committed record never lacks a child the request writes:
\* its summary, its tags, its medications and its lab values are in the
\* database whenever the record is.
C7_RecordAndChildrenAtomic ==
    \A r \in Requests :
        document_id[r] # 0
           => /\ db.summaries[document_id[r]] = OwnRows(r).summary
              /\ RowsOf(db.tags, document_id[r]) = OwnRows(r).tags
              /\ StoredMedications(r) = MedicationRows(document_id[r], llm_analysis[r])
              /\ StoredLabValues(r) = LabValueRows(document_id[r], llm_analysis[r])

\* C7 as the code has it: the record, its summary and its system tags become
\* visible together (one transaction), and nothing of an open session is
\* visible; the medications and lab values are written by a second
\* transaction, all of them or none.
C7_TwoTransactions ==
    /\ Len(db.summaries) = Len(db.documents)
    /\ \A i \in 1..Len(db.documents) :
          /\ db.summaries[i].document_id = db.documents[i].id
          /\ RowsOf(db.tags, db.documents[i].id)
                = _add_system_tags(db.documents[i].id, db.documents[i].document_type)
    /\ \A r \in Requests :
          /\ pc[r] = "committing" => session[r].document.id > Len(db.documents)
          /\ document_id[r] = 0 => NotInDatabase(r)
          /\ document_id[r] # 0
                => \/ /\ Len(StoredMedications(r)) = 0
                      /\ Len(StoredLabValues(r)) = 0
                   \/ /\ pc[r] = "done"
                      /\ StoredMedications(r)
                            = MedicationRows(document_id[r], llm_analysis[r])
                      /\ StoredLabValues(r)
                            = LabValueRows(document_id[r], llm_analysis[r])

C7_Witness ==
    \E r1, r2 \in Requests :
        /\ pc[r1] = "structuring"
        /\ Len(MedicationRows(document_id[r1], llm_analysis[r1])) > 0
        /\ Len(StoredMedications(r1)) = 0
        /\ Len(RowsOf(db.tags, document_id[r1])) > 0
        /\ pc[r2] = "done"
        /\ Len(StoredLabValues(r2)) > 0

\* C8: interleaved requests meet only in the database: every record has its
\* own id, the ids of two requests differ, each request's record, summary,
\* tags and extracted rows are the ones computed from its own file and carry
\* its own document_id, and each response holds its own request's results.
C8_RequestsIsolated ==
    /\ \A i \in 1..Len(db.documents) : db.documents[i].id = i
    /\ \A r1, r2 \in Requests :
          (r1 # r2 /\ document_id[r1] # 0) => document_id[r1] # document_id[r2]
    /\ \A r \in Requests :
          /\ processing_result[r] # NoDict
                => /\ processing_result[r].file_name = file_path[r].name
                   /\ processing_result[r].file_size_bytes = file_path[r].size
                   /\ processing_result[r].text_content = file_path[r].content
          /\ document_id[r] # 0
                => /\ document_id[r] \in 1..Len(db.documents)
                   /\ db.documents[document_id[r]].file_name = file_path[r].name
                   /\ db.documents[document_id[r]].user_id = UserOf(r)
                   /\ db.documents[document_id[r]].text_content = file_path[r].content
                   /\ db.summaries[document_id[r]].document_id = document_id[r]
                   /\ db.summaries[document_id[r]].short_summary = summary[r]
                   /\ IsPrefix(StoredMedications(r),
                               MedicationRows(document_id[r], llm_analysis[r]))
                   /\ IsPrefix(StoredLabValues(r),
                               LabValueRows(document_id[r], llm_analysis[r]))
          /\ pc[r] = "done"
                => /\ response[r].document_id = document_id[r]
                   /\ response[r].processing_result.file_name = file_path[r].name
                   /\ response[r].llm_analysis = llm_analysis[r]
                   /\ response[r].summary = summary[r]
                   /\ response[r].processing_duration = Elapsed(r)

C8_Witness ==
    \E r1, r2 \in Requests :
        /\ r1 # r2
        /\ pc[r1] = "done"
        /\ pc[r2] = "done"
        /\ file_path[r1] # file_path[r2]
        /\ document_id[r1] = 2
        /\ document_id[r2] = 1
        /\ Len(StoredMedications(r1)) > 0
        /\ Len(StoredLabValues(r2)) > 0

\* the categories classify_document_type can return
Categories ==
    { "ecg", "blood_test", "prescription", "radiology", "lab_report",
      "medical_document", "report", "general_document" }

\* C9 as claimed: every completed record has a document_type of the
\* classifier, never 'unknown', and a confidence_score other than the
\* initial 0.0, whatever the extracted text, the empty text included.
C9_AlwaysClassifiedAndScored ==
    \A i \in 1..Len(db.documents) :
        db.documents[i].analysis_status = "completed"
           => /\ db.documents[i].document_type \in Categories
              /\ db.documents[i].confidence_score # FZero

\* C9 as the code has it: a completed record whose extracted text is not
\* empty has the document_type classify_document_type gives that text and the
\* confidence_score calculate_confidence_score gives the result; a completed
\* record whose extracted text is empty keeps 'unknown' and 0.0.
C9_ClassifiedWhenTextPresent ==
    \A i \in 1..Len(db.documents) :
        db.documents[i].analysis_status = "completed"
           => IF db.documents[i].text_content # <<>>
              THEN /\ db.documents[i].document_type \in Categories
                   /\ db.documents[i].document_type
                         = classify_document_type(db.documents[i].text_content)
                   /\ db.documents[i].confidence_score
                         = calculate_confidence_score(
                               [text_content |-> db.documents[i].text_content,
                                document_type |-> db.documents[i].document_type,
                                metadata |-> json_loads(db.documents[i].extracted_data)])
                   /\ FLess(FZero, db.documents[i].confidence_score)
              ELSE /\ db.documents[i].document_type = "unknown"
                   /\ db.documents[i].confidence_score = FZero

C9_Witness ==
    \E i, j \in 1..Len(db.documents) :
        /\ db.documents[i].text_content = <<>>
        /\ db.documents[i].analysis_status = "completed"
        /\ db.documents[j].text_content # <<>>
        /\ db.documents[j].document_type = "prescription"

\* the extensions of the format table, DICOM included
C10_SupportedExtensions ==
    { <<".", "p", "d", "f">>, <<".", "d", "o", "c", "x">>, <<".", "d", "o", "c">>,
      <<".", "t", "x", "t">>, <<".", "r", "t", "f">>, <<".", "j", "p", "g">>,
      <<".", "j", "p", "e", "g">>, <<".", "p", "n", "g">>, <<".", "b", "m", "p">>,
      <<".", "t", "i", "f", "f">>, <<".", "t", "i", "f">>, <<".", "d", "c", "m">>,
      <<".", "d", "i", "c", "o", "m">> }

\* C10: validate_file answers True exactly when the file exists, its
\* lower-cased extension is in the format table and its size is at most
\* 50*1024*1024 bytes (that size accepted, one byte more rejected as too
\* large); otherwise False with the message of the first check that fails,
\* in the order existence, extension, size.
C10_ValidateFile ==
    vresult # NoDict =>
        LET exists == vfile.exists
            supported == Lower(vfile.suffix) \in C10_SupportedExtensions
            fits == vfile.size <= 50 * 1024 * 1024
        IN  /\ vresult.is_valid <=> (exists /\ supported /\ fits)
            /\ vresult.is_valid => vresult.message = <<"File is valid">>
            /\ ~exists => vresult.message[1] = "File does not exist"
            /\ (exists /\ ~supported)
                  => vresult.message[1] = "Unsupported file format"
            /\ (exists /\ supported /\ ~fits)
                  => vresult.message[1] = "File too large"

C10_Witness ==
    /\ vresult # NoDict
    /\ vresult.is_valid
    /\ vfile.size = 50 * 1024 * 1024
    /\ vfile.suffix = <<".", "P", "d", "F">>

\* the categories of the trigger table in the order it declares them
CategoryOrder == <<"ecg", "blood_test", "prescription", "radiology", "lab_report">>

\* the triggers the table declares for category c
TriggersOf(c) ==
    medical_patterns[CHOOSE i \in 1..Len(medical_patterns) : medical_patterns[i][1] = c][2]

\* how many triggers of category c are substrings of the lower-cased text
TriggerCount(c, text) ==
    Cardinality({k \in 1..Len(TriggersOf(c)) : Contains(Lower(text), TriggersOf(c)[k])})

\* C11: when some category has a trigger count above zero,
\* classify_document_type returns a category whose count is the greatest, and
\* among the categories with that count the one declared first in the order
\* ecg, blood_test, prescription, radiology, lab_report.
C11_FirstDeclaredMaximum ==
    output # NoDict =>
        ((\E i \in 1..Len(CategoryOrder) : TriggerCount(CategoryOrder[i], input) > 0)
            => \E i \in 1..Len(CategoryOrder) :
                  /\ output.value = CategoryOrder[i]
                  /\ \A j \in 1..Len(CategoryOrder) :
                        TriggerCount(CategoryOrder[j], input)
                           <= TriggerCount(CategoryOrder[i], input)
                  /\ \A j \in 1..(i - 1) :
                        TriggerCount(CategoryOrder[j], input)
                           < TriggerCount(CategoryOrder[i], input))

C11_Witness ==
    /\ output # NoDict
    /\ input = <<"m", "r", "i", " ", "n", "o", "r", "m", "a", "l", " ", "R", "x">>
    /\ output.scores = <<0, 0, 1, 1, 1>>
    /\ output.value = "prescription"

\* C12: the score of every category is the number of its triggers that occur
\* in the text in any letter case: each trigger of the table, lower-cased as
\* the text is, adds one when the lower-cased text contains it.
C12_EveryTriggerCanMatch ==
    output # NoDict =>
        \A i \in 1..Len(medical_patterns) :
            output.scores[i]
               = Cardinality({k \in 1..Len(medical_patterns[i][2]) :
                                Contains(Lower(input), Lower(medical_patterns[i][2][k]))})

\* C13: when no category has a trigger count above zero the result is
\* 'medical_document' if the lower-cased text contains patient, medical,
\* doctor or hospital, otherwise 'report' if it contains report, analysis or
\* findings, otherwise 'general_document' (the empty text included); one of
\* these three is returned only when every count is zero.
C13_GenericFallback ==
    output # NoDict =>
        LET none == \A i \in 1..Len(CategoryOrder) :
                        TriggerCount(CategoryOrder[i], input) = 0
            medical == \E w \in { <<"p", "a", "t", "i", "e", "n", "t">>, <<"m", "e", "d", "i", "c", "a", "l">>,
                                  <<"d", "o", "c", "t", "o", "r">>, <<"h", "o", "s", "p", "i", "t", "a", "l">> } :
                            Contains(Lower(input), w)
            report == \E w \in { <<"r", "e", "p", "o", "r", "t">>, <<"a", "n", "a", "l", "y", "s", "i", "s">>,
                                 <<"f", "i", "n", "d", "i", "n", "g", "s">> } :
                            Contains(Lower(input), w)
        IN  /\ none => output.value = IF medical THEN "medical_document"
                                      ELSE IF report THEN "report"
                                      ELSE "general_document"
            /\ output.value \in {"medical_document", "report", "general_document"}
                  => none
            /\ input = <<>> => output.value = "general_document"

C13_Witness ==
    /\ output # NoDict
    /\ input = <<"r", "e", "p", "o", "r", "t", " ", "D", "o", "c", "t", "o", "r">>
    /\ output.value = "medical_document"

\* a + b + c + d of the score in thousandths, as real numbers add
ExactThousandths(result) ==
    (IF result.text_content # <<>> THEN 500 ELSE 0)
    + (IF Len(result.text_content) > 100 THEN 200
       ELSE IF Len(result.text_content) > 50 THEN 100 ELSE 0)
    + (IF result.document_type # "unknown" THEN 200 ELSE 0)
    + (IF "confidence" \in DOMAIN result.metadata THEN result.metadata.confidence ELSE 0)

\* a < b for naturals of any size
BigLt(a, b) == IF Len(a) # Len(b) THEN Len(a) < Len(b) ELSE BigLess(a, b)

\* thousand times the double x, times 2^64
ScaledThousand(x) == IF x.m = <<>> THEN <<>> ELSE BigShl(BigMulSmall(x.m, 1000), x.e + 64)

\* thousandths t, times 2^64
ScaledExact(t) == IF t = 0 THEN <<>> ELSE BigShl(<<t>>, 64)

\* | x - t / 1000 | < 2^-52
WithinOneUlp(x, t) ==
    /\ BigLt(ScaledThousand(x), BigAdd(ScaledExact(t), BigShl(<<1000>>, 12)))
    /\ BigLt(ScaledExact(t), BigAdd(ScaledThousand(x), BigShl(<<1000>>, 12)))

\* the result for 120 characters classified 'ecg' without OCR metadata
IsLongEcg(result) ==
    /\ Len(result.text_content) = 120
    /\ result.document_type = "ecg"
    /\ "confidence" \notin DOMAIN result.metadata

\* C14 as claimed: the score is min(1.0, a + b + c + d) exactly: the double
\* that a + b + c + d, capped at 1, is written as (0.9 for 120 characters
\* classified 'ecg' without OCR metadata, 0.0 for empty 'unknown' text).
C14_ExactSum ==
    output # NoDict =>
        output.value = FromRatio(Min(ExactThousandths(input), 1000), 1000)

\* C14 as the code has it: the score is the float sum 0.0 + a + b + c + d,
\* each addition rounded, capped at 1.0: it lies in [0, 1], is 0.0 exactly
\* when a, b, c and d are all zero, and is less than 2^-52 away from
\* min(1, a + b + c + d); 120 characters classified 'ecg' without OCR
\* metadata give 0.8999999999999999, the double just below 0.9.
C14_FloatSum ==
    output # NoDict =>
        /\ ~FLess(score_cap, output.value)
        /\ (output.value = FZero) <=> (ExactThousandths(input) = 0)
        /\ WithinOneUlp(output.value, Min(ExactThousandths(input), 1000))
        /\ IsLongEcg(input)
              => /\ output.value.e = FromRatio(9, 10).e
                 /\ BigAdd(output.value.m, <<1>>) = FromRatio(9, 10).m
        /\ (input.text_content = <<>> /\ input.document_type = "unknown"
            /\ "confidence" \notin DOMAIN input.metadata)
              => output.value = FZero

C14_Witness ==
    /\ output # NoDict
    /\ IsLongEcg(input)
    /\ FLess(output.value, FromRatio(9, 10))

\* the pairs of positions of medications whose lowered names, in either
\* order, are a pair of common_interactions
TablePairs(medications) ==
    { p \in (1..Len(medications)) \X (1..Len(medications)) :
        /\ p[1] < p[2]
        /\ \E k \in 1..Len(common_interactions) :
             {Lower(medications[p[1]]), Lower(medications[p[2]])} = {common_interactions[k][1], common_interactions[k][2]}
             /\ Lower(medications[p[1]]) # Lower(medications[p[2]]) }

\* the unordered pairs of lowered names the entries report
ReportedPairs(interactions) ==
    { {Lower(interactions[k].medications[1]), Lower(interactions[k].medications[2])} : k \in 1..Len(interactions) }

\* C15: a call of analyze_medication_interactions with two or more names
\* returns one entry of severity 'moderate' for each pair of positions that
\* is a pair of the table, and the advisory warning; with fewer names it
\* returns an empty interactions list and no error.
C15_OneEntryPerTablePair ==
    output # NoDict =>
        /\ "error" \notin DOMAIN output.value
        /\ Len(output.value.interactions) = Cardinality(TablePairs(input))
        /\ ReportedPairs(output.value.interactions) = { {Lower(input[p[1]]), Lower(input[p[2]])} : p \in TablePairs(input) }
        /\ \A k \in 1..Len(output.value.interactions) : output.value.interactions[k].severity = "moderate"
        /\ Len(input) >= 2 => ("warnings" \in DOMAIN output.value /\ output.value.warnings = << advisory_warning >>)

\* [med['name'] for med in medications]
NamesOf(medications) == [k \in 1..Len(medications) |-> medications[k].name]

\* C16: the payload of a prescription analysis, with or without a client,
\* holds the medications extracted from the text and, as interaction_check,
\* what the interaction checker returns for their names.
C16_PrescriptionHasInteractionCheck ==
    (output # NoDict /\ input.document_type = "prescription" /\ Strip(input.text_content) # <<>>) =>
        /\ "medications" \in DOMAIN output.value
        /\ "interaction_check" \in DOMAIN output.value
        /\ output.value.medications = _extract_medications_from_text(input.text_content)
        /\ \E answer \in BackendTexts, now \in Instants :
             output.value.interaction_check = analyze_medication_interactions(NamesOf(output.value.medications), openai_client, answer, now)

\* C17: without a client analyze_document_comprehensive returns for a
\* non-empty text of any document type a payload with an analysis and a
\* disclaimer and without an error.
C17_FallbacksNeverFail ==
    (output # NoDict /\ ~openai_client /\ input.text_content # <<>>) =>
        /\ "analysis" \in DOMAIN output.value
        /\ "disclaimer" \in DOMAIN output.value
        /\ "error" \notin DOMAIN output.value

\* C18: with a client every category analysis returns a payload without an
\* error whose analysis is the text the backend returned ('' when the call
\* failed) and which has a disclaimer.
C18_LiveAnalysisIsBackendText ==
    (output # NoDict /\ openai_client /\ Strip(input.text_content) # <<>>) =>
        /\ "error" \notin DOMAIN output.value
        /\ "analysis" \in DOMAIN output.value
        /\ output.value.analysis = BackendText(output.answer)
        /\ "disclaimer" \in DOMAIN output.value

\* C19: no extractor raises, whatever the text: _extract_lab_values returns
\* its list of entries also for a text with a word followed by a lone '.'
\* or by digits with several dots.
C19_ExtractorsNeverRaise ==
    output # NoDict => ~output.lab_values.raised

\* request r was answered with success
Succeeded(r) == "success" \in DOMAIN response[r] /\ response[r].success

\* the tag names stored for the record id, in the order written
NamesIn(rows) == [k \in 1..Len(rows) |-> rows[k].tag_name]
TagNamesOf(id) == NamesIn(RowsOf(db.tags, id))

\* C20: after a successful analyze_document_complete the tags stored for the
\* record are the entry of tag_mappings for the record's document_type, or
\* 'medical' and 'document' for a type without an entry, each of tag_type
\* 'system'; records of the same document_type have the same tags.
C20_SystemTagsFromType ==
    /\ \A r \in Requests :
          Succeeded(r) =>
             /\ TagNamesOf(document_id[r]) = SystemTagNames(db.documents[document_id[r]].document_type)
             /\ \A k \in 1..Len(db.tags) : db.tags[k].tag_type = "system"
    /\ \A r1, r2 \in Requests :
          (Succeeded(r1) /\ Succeeded(r2)
             /\ db.documents[document_id[r1]].document_type = db.documents[document_id[r2]].document_type)
          => TagNamesOf(document_id[r1]) = TagNamesOf(document_id[r2])

C20_Witness ==
    \E r1, r2 \in Requests :
        /\ Succeeded(r1) /\ Succeeded(r2)
        /\ db.documents[document_id[r1]].document_type \in DOMAIN tag_mappings
        /\ db.documents[document_id[r2]].document_type \notin DOMAIN tag_mappings
        /\ Len(TagNamesOf(document_id[r1])) = 3
        /\ TagNamesOf(document_id[r2]) = default_tags

\* C21: whatever analyses are stored and user tags added, in sequence or
\* interleaved, no two rows of document_tags have the same document_id and
\* tag_name.
C21_TagsUnique ==
    \A j, k \in 1..Len(db.tags) :
        (db.tags[j].document_id = db.tags[k].document_id /\ db.tags[j].tag_name = db.tags[k].tag_name) => j = k

\* details is what was stored
SameAsStored(details, stored) ==
    /\ details.found
    /\ details.document.document_type = stored.processing_result.document_type
    /\ details.document.confidence_score = stored.processing_result.confidence_score
    /\ details.analysis = stored.llm_analysis
    /\ details.summary.key_points = Get(stored.llm_analysis, "key_points", <<>>)
    /\ details.summary.action_items = Get(stored.llm_analysis, "action_items", <<>>)

\* C22: for every record a request stored for its user,
\* get_document_details(id, user) returns the document_type and
\* confidence_score given to _store_analysis_results, as analysis the
\* llm_analysis given to it, and as summary key_points and action_items the
\* lists of that llm_analysis, empty when it has none.
C22_DetailsRoundTrip ==
    \A r \in Requests :
        document_id[r] # 0 =>
            SameAsStored(get_document_details(document_id[r], user_id[r]),
                         [processing_result |-> processing_result[r], llm_analysis |-> llm_analysis[r]])

C22_Witness ==
    /\ document_id[1] # 0
    /\ document_id[2] # 0
    /\ openai_client
    /\ Len(get_document_details(document_id[2], user_id[2]).extracted_data.lab_values) = 0
    /\ Len(get_document_details(document_id[1], user_id[1]).summary.key_points) = 1
    /\ get_document_details(document_id[1], user_id[1]).summary.key_points
          # get_document_details(document_id[1], user_id[1]).summary.action_items

\* C23: process_document never propagates an exception to its caller, for
\* every file path, present or not, and every failure of an extractor; it
\* returns a result, and a result with error set has empty text_content,
\* document_type 'unknown' and confidence_score 0.0.
C23_NeverPropagates ==
    vresult # NoDict =>
        /\ ~vresult.raised
        /\ vresult.result.error # None =>
              /\ vresult.result.text_content = <<>>
              /\ vresult.result.document_type = "unknown"
              /\ vresult.result.confidence_score = FZero

\* the text OCR produced for the image vfile: the easyocr regions kept, else
\* the tesseract output
OcrText(file, flags) ==
    IF flags.ocr_reader /\ flags.ADVANCED_PROCESSING /\ ~file.easyocr_fails /\ JoinWith(KeptTexts(file.regions), <<" ">>) # <<>>
    THEN JoinWith(KeptTexts(file.regions), <<" ">>)
    ELSE IF file.tess_fails THEN <<>> ELSE Strip(file.tess_text)

\* C24: for an image that loads and for which OCR produced text,
\* process_image returns that text whether the chart detector returns true,
\* returns false or fails.
C24_ChartNeverBlocksText ==
    (/\ vresult # NoDict
     /\ vfile.exists
     /\ ~vfile.corrupt
     /\ env.PDF_AVAILABLE
     /\ InFamily(Lower(vfile.suffix), "image")
     /\ OcrText(vfile, env) # <<>>)
    => (~vresult.raised /\ vresult.result.text_content = OcrText(vfile, env))

TagMappingFailed(r) == "tag_mapping_failed" \in {stages[r][i] : i \in 1..Len(stages[r])}

\* C25: a request whose tag-mapping step or structured-data step raised is
\* still answered with success; the exception neither escapes nor makes the
\* response a failure.
C25_StepFailuresDegrade ==
    \A r \in Requests :
        (TagMappingFailed(r) \/ StructuredFailed(r))
            => /\ pc[r] = "done"
               /\ response[r].success = TRUE

\* C26: the progress dialog opened by an analysis is eventually dismissed by
\* its completion callback, whether processing succeeds, returns an error or
\* raises.
C26_DialogEventuallyDismissed ==
    \A n \in 1..MaxAnalyses :
        (Len(screen.dialogs) >= n) ~> (Len(screen.dialogs) >= n /\ screen.dialogs[n] = "dismissed")

\* every row is a record of user u
OwnedBy(rows, u) == \A k \in 1..Len(rows) : db.documents[rows[k].id].user_id = u

\* what the read operations return to user u
ReadsConfined(u) ==
    /\ OwnedBy(get_user_documents(u), u)
    /\ \A q \in SearchQueries :
          /\ OwnedBy(search_documents(u, q, None, {}), u)
          /\ OwnedBy(search_documents(u, q, "blood_test", 1..Len(db.documents)), u)
    /\ \A d \in 1..Len(db.documents) :
          db.documents[d].user_id # u => ~get_document_details(d, u).found

\* a tag of type user is on a record of the user who called add_user_tag
UserTagsOwned ==
    \A k \in 1..Len(db.tags) :
        db.tags[k].tag_type = "user" => db.documents[db.tags[k].document_id].user_id = CallingUser

\* add_user_tag on a record of another user returns False and adds nothing
ForeignTagRefused ==
    \A c \in Callers :
        (calls[c].pc = "idle" /\ calls'[c].pc # "idle") =>
            \A d \in Requests :
                ~OwnedDocument(d, CallingUser) =>
                    \A t \in TagNames :
                        TagQuery(c, d, CallingUser, t)
                            => (calls'[c] = [pc |-> "returned", result |-> FALSE] /\ db' = db)

\* C27: whatever records the users have stored, get_user_documents and
\* search_documents return to a user only records of that user,
\* get_document_details returns None for a record of another user, and
\* add_user_tag on a record of another user returns False and adds no tag.
C27_ConfinedToCaller ==
    /\ [](\A u \in Users : ReadsConfined(u))
    /\ []UserTagsOwned
    /\ [][ForeignTagRefused]_vars

C27_Witness ==
    /\ Len(db.documents) >= 2
    /\ db.documents[1].user_id # db.documents[2].user_id
    /\ Len(get_user_documents(db.documents[2].user_id)) = 1
    /\ Len(search_documents(CallingUser, <<"O", " ", "D">>, None, {})) = 1
    /\ \E k \in 1..Len(db.tags) : db.tags[k].tag_type = "user"
    /\ \E c \in Callers : calls[c].pc = "returned" /\ ~calls[c].result

\* C28: a file validate_file accepts is routed by process_document to one of
\* the extractors of the pdf, word, text and image families; the answer is
\* never 'Unsupported file format'.
C28_ValidatedFilesAreRouted ==
    (vresult # NoDict /\ validate_file(vfile).is_valid)
        => /\ ~vresult.raised
           /\ vresult.result.error # "Unsupported file format"
           /\ \E fam \in {"pdf", "word", "text", "image"} : InFamily(Lower(vfile.suffix), fam)

\* how often entry occurs in log
Count(log, entry) == Cardinality({i \in 1..Len(log) : log[i] = entry})

\* C29: a request that was analysed ran the category analysis exactly once,
\* and the backend received at most one category request for its document.
C29_OneCategoryAnalysis ==
    \A r \in Requests :
        "analyze" \in {stages[r][i] : i \in 1..Len(stages[r])}
            => /\ Count(llm_calls[r], "analyze_document_comprehensive") = 1
               /\ Count(llm_calls[r], "category request") <= 1

\* the scheduler threads that are inside _run_scheduler
Looping == {t \in 1..Len(notifier.threads) : notifier.threads[t] # "ended"}

\* C30: after any sequence of start_medication_scheduler and stop_scheduler
\* at most one thread executes _run_scheduler, each of the two reminder
\* checks is registered at most once, and a scheduling tick runs each check
\* at most once.
C30_OneSchedulerLoop ==
    /\ Cardinality(Looping) <= 1
    /\ Count(notifier.jobs, "_check_medication_reminders") <= 1
    /\ Count(notifier.jobs, "_check_appointment_reminders") <= 1
    /\ Count(notifier.ran, "_check_medication_reminders") <= 1

====
